---- MODULE Spec2Model ----
(***************************************************************************)
(* A model of blivet/osinstall.py: the FSSet mount plan (fstab parsing,    *)
(* mount / unmount ordering, swap activation, configuration writers) and   *)
(* the scan for existing installations.                                    *)
(*                                                                         *)
(* Strings of the program whose content the code inspects (mountpoints,    *)
(* device paths, option lists, fstab lines) are sequences of character     *)
(* codes, so that Python's string comparison, partition and split are      *)
(* computed as the code computes them.  Names of devices and of format     *)
(* types are TLA+ strings: the code only compares them for equality.       *)
(***************************************************************************)
EXTENDS Integers, Sequences, FiniteSets, TLC

VARIABLES
    installer_mode,   \* flags.installer_mode
    efi,              \* isinstance(_platform, EFI)
    tree,             \* devicetree.devices: the device graph, as an ordered list of device names
    dev,              \* the attributes of every device object (in the graph or not)
    active,           \* FSSet.active
    pc,               \* the operation in progress ("idle": none, "returned": it has just ended)
    call,             \* the entry point that was called last
    args,             \* the arguments of the operation in progress
    todo,             \* the devices the running loop has not visited yet
    attempted,        \* the devices the last operation called (set up, tore down), in call order
    last,             \* the calls of the loop iteration that ran last, with their outcomes
    raised,           \* the exception the last operation propagated to its caller ("none" if none)
    fails,            \* how many failures the environment has injected into the last operation
    lines,            \* the lines of <chroot>/etc/fstab
    unread,           \* the lines the loop of parse_fstab has not read yet
    preserve_lines,   \* FSSet.preserve_lines
    orig_fstab,       \* FSSet.orig_fstab: <<>> is None, <<text>> a string
    blkid_tab,        \* FSSet.blkid_tab: "None" or "parsed"
    crypt_tab,        \* FSSet.crypt_tab: <<>> is None, <<mappings>> a CryptTab
    fstab_swaps,      \* FSSet._fstab_swaps
    output,           \* what fstab() returned: the items of the text, in order
    up,               \* the devices parse_fstab or the scan has set up and not torn down since
    sysroot,          \* the device whose filesystem the scan has mounted at the system root
    roots,            \* the list roots of _find_existing_installations
    result,           \* what find_existing_installations returned: <<>> is nothing yet, <<list>> a list
    files,            \* the names that exist as files under the mountpoint create_swap_file is given
    crypttab          \* the lines of <chroot>/etc/crypttab

varsMount == <<installer_mode, efi, tree, dev, active, pc, call, args, todo, attempted, last, raised, fails>>

varsParse == <<lines, unread, preserve_lines, orig_fstab, blkid_tab, crypt_tab, fstab_swaps, output, up>>

varsScan == <<sysroot, roots, result>>

varsTarget == <<files, crypttab>>

vars == <<varsMount, varsParse, varsScan, varsTarget>>

-----------------------------------------------------------------------------
(* Bounds of the model. *)

\* the most device / format failures the environment injects into one operation
MaxFailures == 1

\* the most lines an fstab file has
MaxLines == 2

-----------------------------------------------------------------------------
(* Strings. *)

P_root == <<47>>   \* "/"
P_boot == <<47, 98, 111, 111, 116>>   \* "/boot"
P_var == <<47, 118, 97, 114>>   \* "/var"
P_var_log == <<47, 118, 97, 114, 47, 108, 111, 103>>   \* "/var/log"
P_data == <<47, 100, 97, 116, 97>>   \* "/data"
P_dev == <<47, 100, 101, 118>>   \* "/dev"
P_dev_shm == <<47, 100, 101, 118, 47, 115, 104, 109>>   \* "/dev/shm"
P_dev_pts == <<47, 100, 101, 118, 47, 112, 116, 115>>   \* "/dev/pts"
P_sys == <<47, 115, 121, 115>>   \* "/sys"
P_proc == <<47, 112, 114, 111, 99>>   \* "/proc"
P_selinux == <<47, 115, 121, 115, 47, 102, 115, 47, 115, 101, 108, 105, 110, 117, 120>>   \* "/sys/fs/selinux"
P_usb == <<47, 112, 114, 111, 99, 47, 98, 117, 115, 47, 117, 115, 98>>   \* "/proc/bus/usb"
P_run == <<47, 114, 117, 110>>   \* "/run"
P_efivars == <<47, 115, 121, 115, 47, 102, 105, 114, 109, 119, 97, 114, 101, 47, 101, 102, 105, 47, 101, 102, 105, 118, 97, 114, 115>>   \* "/sys/firmware/efi/efivars"
P_mnt_bind == <<47, 109, 110, 116, 47, 98, 105, 110, 100>>   \* "/mnt/bind"
P_srv == <<47, 115, 114, 118>>   \* "/srv"
O_defaults == <<100, 101, 102, 97, 117, 108, 116, 115>>   \* "defaults"
O_defaults_noauto == <<100, 101, 102, 97, 117, 108, 116, 115, 44, 110, 111, 97, 117, 116, 111>>   \* "defaults,noauto"
O_noauto == <<110, 111, 97, 117, 116, 111>>   \* "noauto"
D_sda1 == <<47, 100, 101, 118, 47, 115, 100, 97, 49>>   \* "/dev/sda1"
D_sda2 == <<47, 100, 101, 118, 47, 115, 100, 97, 50>>   \* "/dev/sda2"
D_sda3 == <<47, 100, 101, 118, 47, 115, 100, 97, 51>>   \* "/dev/sda3"
D_sda4 == <<47, 100, 101, 118, 47, 115, 100, 97, 52>>   \* "/dev/sda4"
D_sda5 == <<47, 100, 101, 118, 47, 115, 100, 97, 53>>   \* "/dev/sda5"
D_sda6 == <<47, 100, 101, 118, 47, 115, 100, 97, 54>>   \* "/dev/sda6"
D_sdb1 == <<47, 100, 101, 118, 47, 115, 100, 98, 49>>   \* "/dev/sdb1"
D_sda == <<47, 100, 101, 118, 47, 115, 100, 97>>   \* "/dev/sda"
D_swapfile == <<47, 115, 119, 97, 112, 102, 105, 108, 101>>   \* "/swapfile"
P_mnt == <<47, 109, 110, 116>>   \* "/mnt"
P_home == <<47, 104, 111, 109, 101>>   \* "/home"
P_net == <<47, 110, 101, 116>>   \* "/net"
P_tmp == <<47, 116, 109, 112>>   \* "/tmp"
O_x_initrd == <<44, 120, 45, 105, 110, 105, 116, 114, 100, 46, 109, 111, 117, 110, 116>>   \* ",x-initrd.mount"
O_device_timeout == <<44, 120, 45, 115, 121, 115, 116, 101, 109, 100, 46, 100, 101, 118, 105, 99, 101, 45, 116, 105, 109, 101, 111, 117, 116, 61, 48>>   \* ",x-systemd.device-timeout=0"
S_dev_loop == <<47, 100, 101, 118, 47, 108, 111, 111, 112>>   \* "/dev/loop"
S_none == <<110, 111, 110, 101>>   \* "none"
S_swap == <<115, 119, 97, 112>>   \* "swap"
T_auto == <<97, 117, 116, 111>>   \* "auto"
T_bind == <<98, 105, 110, 100>>   \* "bind"
T_nfs == <<110, 102, 115>>   \* "nfs"
T_ext4 == <<101, 120, 116, 52>>   \* "ext4"
T_xfs == <<120, 102, 115>>   \* "xfs"
T_proc == <<112, 114, 111, 99>>   \* "proc"
T_tmpfs == <<116, 109, 112, 102, 115>>   \* "tmpfs"
NoStr == <<>>      \* None, the empty string, or an attribute the object lacks
S_UUID == <<85, 85, 73, 68, 61>>   \* "UUID="

\* Python's a < b on strings: lexicographic on the code points, a proper
\* prefix being smaller.
RECURSIVE StrLessFrom(_, _, _)
StrLessFrom(a, b, i) ==
    IF i > Len(b) THEN FALSE
    ELSE IF i > Len(a) THEN TRUE
    ELSE IF a[i] = b[i] THEN StrLessFrom(a, b, i + 1)
    ELSE a[i] < b[i]

StrLess(a, b) == StrLessFrom(a, b, 1)

\* a.startswith(b)
StartsWith(a, b) == Len(b) <= Len(a) /\ SubSeq(a, 1, Len(b)) = b

\* Python's s.split(sep) for a one-character separator: the maximal pieces
\* between separators, empty pieces included.
RECURSIVE SplitOn(_, _)
SplitOn(s, sep) ==
    IF \A i \in 1..Len(s) : s[i] # sep THEN <<s>>
    ELSE LET i == CHOOSE k \in 1..Len(s) :
                      s[k] = sep /\ \A j \in 1..(k - 1) : s[j] # sep
         IN  <<SubSeq(s, 1, i - 1)>> \o SplitOn(SubSeq(s, i + 1, Len(s)), sep)

Range(s) == {s[i] : i \in 1..Len(s)}

\* sub in s, on strings
Contains(s, sub) ==
    \E i \in 1..(Len(s) - Len(sub) + 1) : SubSeq(s, i, i + Len(sub) - 1) = sub

\* s.partition(sep)[0] for a one-character separator: what precedes the
\* first separator, or all of s
PartitionHead(s, sep) ==
    IF \A i \in 1..Len(s) : s[i] # sep THEN s
    ELSE LET i == CHOOSE k \in 1..Len(s) :
                      s[k] = sep /\ \A j \in 1..(k - 1) : s[j] # sep
         IN  SubSeq(s, 1, i - 1)

IsSpace(c) == c \in {9, 10, 11, 12, 13, 32}

\* the fields of s from position i on; start is where the field in progress
\* began (0: between fields)
RECURSIVE SplitFrom(_, _, _)
SplitFrom(s, i, start) ==
    IF i > Len(s)
    THEN (IF start = 0 THEN <<>> ELSE <<SubSeq(s, start, Len(s))>>)
    ELSE IF IsSpace(s[i])
         THEN (IF start = 0 THEN <<>> ELSE <<SubSeq(s, start, i - 1)>>)
                  \o SplitFrom(s, i + 1, 0)
         ELSE SplitFrom(s, i + 1, IF start = 0 THEN i ELSE start)

\* s.split(): the maximal runs of non-whitespace characters
Split(s) == SplitFrom(s, 1, 0)

\* "noauto" in options.split(",")
HasNoauto(options) == O_noauto \in Range(SplitOn(options, 44))

-----------------------------------------------------------------------------
(* list.sort(key=...) / sorted(..., key=...): a stable sort.  The operand is *)
(* a sequence of records [k |-> key, d |-> element].                         *)

SortInsertMutantUnsorted(x, s) == s \o <<x>>

\* x goes after every element whose key is not greater than its own
RECURSIVE SortInsert(_, _)
SortInsert(x, s) ==
    IF s = <<>> THEN <<x>>
    ELSE IF StrLess(x.k, s[1].k) THEN <<x>> \o s
         ELSE <<s[1]>> \o SortInsert(x, Tail(s))

RECURSIVE StableSort(_)
StableSort(s) ==
    IF s = <<>> THEN <<>>
    ELSE SortInsert(s[Len(s)], StableSort(SubSeq(s, 1, Len(s) - 1)))

\* the elements of a keyed sequence
RECURSIVE Elements(_)
Elements(s) == IF s = <<>> THEN <<>> ELSE <<s[1].d>> \o Elements(Tail(s))

ReverseMutantKeep(s) == s

\* list.reverse()
RECURSIVE Reverse(_)
Reverse(s) == IF s = <<>> THEN <<>> ELSE Append(Reverse(Tail(s)), s[1])

-----------------------------------------------------------------------------
(* Devices.  A device object is a record: its path, its class, its parents,  *)
(* its encrypted and controllable flags, and its format's type, mountable    *)
(* and linux_native flags, mountpoint, options, check flag and dump number.  *)

NoneDev == "None"

\* the format classes derived from FS: they have the attributes mountpoint,
\* mount_type (the type, for the types of the model) and test_mount
FsTypes == {"ext4", "xfs", "nfs", "bind", "tmpfs", "proc"}

\* the format classes derived from NoDevFS
NoDevTypes == {"tmpfs", "proc"}

Device(path, kind, ftype, mountable, mountpoint, options) ==
    [path |-> path, kind |-> kind, ftype |-> ftype, mountable |-> mountable,
     mountpoint |-> mountpoint, options |-> options, parents |-> <<>>,
     encrypted |-> FALSE, controllable |-> TRUE,
     linux_native |-> ftype \in {"ext4", "xfs"},
     check |-> ftype \in {"ext4"}, dump |-> 0,
     uuid |-> NoStr, map_name |-> NoStr, key_file |-> NoStr, escrow_cert |-> FALSE]

\* The placeholder devices FSSet synthesizes on first use (properties dev,
\* devshm, devpts, sysfs, proc, selinux, usb, run, efivars).
VirtualNames == {"dev", "devshm", "devpts", "sysfs", "proc", "selinux", "usb", "run", "efivars"}

Virtual(d) ==
    CASE d = "sysfs"   -> Device(<<>>, "NoDevice", "sysfs", TRUE, P_sys, O_defaults)
      [] d = "dev"     -> Device(P_dev, "DirectoryDevice", "bind", TRUE, P_dev, O_defaults)
      [] d = "devpts"  -> Device(<<>>, "NoDevice", "devpts", TRUE, P_dev_pts, O_defaults)
      [] d = "proc"    -> Device(<<>>, "NoDevice", "proc", TRUE, P_proc, O_defaults)
      [] d = "devshm"  -> Device(<<>>, "NoDevice", "tmpfs", TRUE, P_dev_shm, O_defaults)
      [] d = "usb"     -> Device(<<>>, "NoDevice", "usbfs", TRUE, P_usb, O_defaults)
      [] d = "selinux" -> Device(<<>>, "NoDevice", "selinuxfs", TRUE, P_selinux, O_defaults)
      [] d = "efivars" -> Device(<<>>, "NoDevice", "efivarfs", TRUE, P_efivars, O_defaults)
      [] d = "run"     -> Device(P_run, "DirectoryDevice", "bind", TRUE, P_run, O_defaults)

\* the device object named d, given the attributes dv of the other devices
Attr(dv, d) == IF d \in VirtualNames THEN Virtual(d) ELSE dv[d]

\* key=lambda d: d.path
RECURSIVE KeyedByPath(_, _)
KeyedByPath(s, dv) ==
    IF s = <<>> THEN <<>>
    ELSE <<[k |-> Attr(dv, s[1]).path, d |-> s[1]]>> \o KeyedByPath(Tail(s), dv)

\* FSSet.devices: the graph's devices sorted by path
devices(tr, dv) ==
    Elements(StableSort(KeyedByPath(tr, dv)))

\* dict assignment m[k] = d on an insertion-ordered dict
RECURSIVE DictPut(_, _, _)
DictPut(m, k, d) ==
    IF m = <<>> THEN <<[k |-> k, d |-> d]>>
    ELSE IF m[1].k = k THEN <<[k |-> k, d |-> d]>> \o Tail(m)
         ELSE <<m[1]>> \o DictPut(Tail(m), k, d)

RECURSIVE MountpointsOf(_, _)
MountpointsOf(ds, dv) ==
    IF ds = <<>> THEN <<>>
    ELSE LET m == MountpointsOf(SubSeq(ds, 1, Len(ds) - 1), dv)
             d == ds[Len(ds)]
         IN  IF Attr(dv, d).mountable /\ Attr(dv, d).mountpoint # NoStr
             THEN DictPut(m, Attr(dv, d).mountpoint, d)
             ELSE m

\* FSSet.mountpoints: mountpoint -> device, for the mountable devices that
\* have a mountpoint; a later device (in path order) replaces an earlier one
\* with the same mountpoint
mountpoints(tr, dv) == MountpointsOf(devices(tr, dv), dv)

\* FSSet.swap_devices
swap_devices(tr, dv) == SelectSeq(devices(tr, dv), LAMBDA d : Attr(dv, d).ftype = "swap")

\* key=lambda d: getattr(d.format, "mountpoint", "")
RECURSIVE KeyedByMountpoint(_, _)
KeyedByMountpoint(s, dv) ==
    IF s = <<>> THEN <<>>
    ELSE <<[k |-> Attr(dv, s[1]).mountpoint, d |-> s[1]]>> \o KeyedByMountpoint(Tail(s), dv)

\* the device list mount_filesystems walks
MountOrder(tr, dv, e) ==
    Elements(StableSort(KeyedByMountpoint(
        Elements(mountpoints(tr, dv)) \o swap_devices(tr, dv)
            \o <<"dev", "devshm", "devpts", "sysfs", "proc", "selinux", "usb", "run">>
            \o (IF e THEN <<"efivars">> ELSE <<>>), dv)))

\* the device list umount_filesystems walks
UmountOrder(tr, dv, e) ==
    Reverse(Elements(StableSort(KeyedByMountpoint(
        Elements(mountpoints(tr, dv)) \o swap_devices(tr, dv)
            \o <<"dev", "devshm", "devpts", "sysfs", "proc", "usb", "selinux", "run">>
            \o (IF e THEN <<"efivars">> ELSE <<>>), dv))))

\* devicetree._remove_device
RemoveDevice(tr, d) == SelectSeq(tr, LAMBDA x : x # d)

\* os.path.basename
Basename(path) ==
    LET slashes == {i \in 1..Len(path) : path[i] = 47}
    IN  IF slashes = {} THEN path
        ELSE SubSeq(path, (CHOOSE i \in slashes : \A j \in slashes : j <= i) + 1, Len(path))

\* Device.name: a FileDevice, a DirectoryDevice and an NFSDevice are named by
\* their path, a block device by the last component of its path
DeviceName(a) ==
    IF a.kind \in {"FileDevice", "DirectoryDevice", "NFSDevice"} THEN a.path ELSE Basename(a.path)

\* devicetree.get_device_by_name
get_device_by_name(tr, dv, name) ==
    LET found == {d \in Range(tr) : DeviceName(dv[d]) = name}
    IN  IF name = NoStr \/ found = {} THEN NoneDev ELSE CHOOSE d \in found : TRUE

N_luks1 == <<108, 117, 107, 115, 45, 49>>   \* "luks-1"
N_luks2 == <<108, 117, 107, 115, 45, 50>>   \* "luks-2"
N_dm0 == <<100, 109, 45, 48>>   \* "dm-0"
N_dm_prefix == <<100, 109, 45>>   \* "dm-"
S_link_sda1 == <<46, 46, 47, 46, 46, 47, 100, 101, 118, 105, 99, 101, 115, 47, 112, 99, 105, 48, 48, 48, 48, 58, 48, 48, 47, 98, 108, 111, 99, 107, 47, 115, 100, 97, 47, 115, 100, 97, 49>>
    \* "../../devices/pci0000:00/block/sda/sda1"
S_link_sdz9 == <<46, 46, 47, 46, 46, 47, 100, 101, 118, 105, 99, 101, 115, 47, 112, 99, 105, 48, 48, 48, 48, 58, 48, 48, 47, 98, 108, 111, 99, 107, 47, 115, 100, 122, 47, 115, 100, 122, 57>>
    \* "../../devices/pci0000:00/block/sdz/sdz9"
S_link_dm0 == <<46, 46, 47, 46, 46, 47, 100, 101, 118, 105, 99, 101, 115, 47, 118, 105, 114, 116, 117, 97, 108, 47, 98, 108, 111, 99, 107, 47, 100, 109, 45, 48>>   \* "../../devices/virtual/block/dm-0"
S_link_dm1 == <<46, 46, 47, 46, 46, 47, 100, 101, 118, 105, 99, 101, 115, 47, 118, 105, 114, 116, 117, 97, 108, 47, 98, 108, 111, 99, 107, 47, 100, 109, 45, 49>>   \* "../../devices/virtual/block/dm-1"

\* what the system answers to the calls of get_containing_device for a path:
\* whether the path exists, whether os.stat succeeds, whether the link
\* under /sys/dev/block exists, what os.readlink returns (<<>>: it raises),
\* and whether blockdev.dm.name_from_node succeeds
LookupAnswers ==
    [exists : BOOLEAN, stat : BOOLEAN, link : BOOLEAN,
     readlink : {NoStr, S_link_sda1, S_link_sdz9, S_link_dm0, S_link_dm1},
     name_from_node : BOOLEAN]

\* blockdev.dm.name_from_node where it succeeds
name_from_node(node) == IF node = N_dm0 THEN N_luks1 ELSE N_luks2

\* how a call ends: the device returned (NoneDev is None) or the exception
Returns(d) == [raised |-> "none", device |-> d]
Raises(e) == [raised |-> e, device |-> NoneDev]

\* get_containing_device(path, devicetree), given the answers of the system
get_containing_device(env, tr, dv) ==
    IF ~env.exists THEN Returns(NoneDev)
    ELSE IF ~env.stat THEN Raises("OSError")
    ELSE IF ~env.link THEN Returns(NoneDev)
    ELSE IF env.readlink = NoStr THEN Returns(NoneDev)
    ELSE LET device_name == Basename(env.readlink)
         IN  IF StartsWith(device_name, N_dm_prefix)
             THEN (IF env.name_from_node
                   THEN Returns(get_device_by_name(tr, dv, name_from_node(device_name)))
                   ELSE Raises("error"))
             ELSE Returns(get_device_by_name(tr, dv, device_name))

\* the ways a call of get_containing_device for a path of the target system
\* may end
ContainingDeviceResults(tr, dv) == {get_containing_device(env, tr, dv) : env \in LookupAnswers}

\* error_handler.cb's answers
ERROR_RAISE == "ERROR_RAISE"
CallbackAnswers == {ERROR_RAISE, "ERROR_CONTINUE"}

Event(op, d, res) == [op |-> op, d |-> d, res |-> res]

-----------------------------------------------------------------------------
(* FSSet.mount_filesystems *)

ReturnedVars == <<installer_mode, efi, tree, dev, active>>

\* an operation is entered: the record of the previous one is dropped
Enter(name, a) ==
    /\ call' = name
    /\ args' = a
    /\ attempted' = <<>>
    /\ last' = <<>>
    /\ raised' = "none"
    /\ fails' = 0

MountBeginMutantNoGate ==
    /\ pc = "idle"
    /\ \E skip_root \in BOOLEAN :
        Enter("mount_filesystems", [skip_root |-> skip_root, swapoff |-> FALSE])
    /\ pc' = "mount"
    /\ todo' = MountOrder(tree, dev, efi)
    /\ UNCHANGED ReturnedVars
    /\ UNCHANGED <<varsParse, varsScan, varsTarget>>

\* the call of mount_filesystems, up to the loop: nothing happens outside
\* installer mode
MountBegin ==
    /\ pc = "idle"
    /\ \E skip_root \in BOOLEAN :
        Enter("mount_filesystems", [skip_root |-> skip_root, swapoff |-> FALSE])
    /\ IF ~installer_mode
       THEN /\ pc' = "returned"
            /\ todo' = <<>>
       ELSE /\ pc' = "mount"
            /\ todo' = MountOrder(tree, dev, efi)
    /\ UNCHANGED ReturnedVars
    /\ UNCHANGED <<varsParse, varsScan, varsTarget>>

\* the loop's filters: devices that are passed over without any call
MountSkips(a, skip_root) ==
    \/ ~a.mountable
    \/ a.mountpoint = NoStr
    \/ skip_root /\ a.mountpoint = P_root
    \/ HasNoauto(a.options)

\* the loop goes on to the next device
Continue(d, events) ==
    /\ attempted' = Append(attempted, d)
    /\ last' = events
    /\ todo' = Tail(todo)
    /\ UNCHANGED <<pc, raised>>

\* the exception leaves the operation in progress
Propagate(d, events) ==
    /\ attempted' = Append(attempted, d)
    /\ last' = events
    /\ todo' = todo
    /\ pc' = "returned"
    /\ raised' = "error"

\* the environment makes a call of the operation in progress fail
InjectFailure ==
    /\ fails < MaxFailures
    /\ fails' = fails + 1

MountSetupFailsMutantMountsAnyway(d, answer) ==
    /\ InjectFailure
    /\ IF answer = ERROR_RAISE
       THEN Propagate(d, <<Event("setup", d, "fail"), Event("cb", d, answer)>>)
       ELSE Continue(d, <<Event("setup", d, "fail"), Event("cb", d, answer),
                          Event("mount", d, "ok")>>)

\* device.setup() raises: the callback decides between raise and continue
MountSetupFails(d, answer) ==
    /\ InjectFailure
    /\ IF answer = ERROR_RAISE
       THEN Propagate(d, <<Event("setup", d, "fail"), Event("cb", d, answer)>>)
       ELSE Continue(d, <<Event("setup", d, "fail"), Event("cb", d, answer)>>)

\* device.format.setup() raises: the callback decides between raise and
\* falling off the end of the loop body
MountFormatFails(d, answer) ==
    /\ InjectFailure
    /\ IF answer = ERROR_RAISE
       THEN Propagate(d, <<Event("setup", d, "ok"), Event("mount", d, "fail"),
                           Event("cb", d, answer)>>)
       ELSE Continue(d, <<Event("setup", d, "ok"), Event("mount", d, "fail"),
                          Event("cb", d, answer)>>)

MountSucceeds(d) ==
    /\ Continue(d, <<Event("setup", d, "ok"), Event("mount", d, "ok")>>)
    /\ fails' = fails

\* device.setup() and device.format.setup(), each under its own try
MountAttempt(d) ==
    \/ MountSucceeds(d)
    \/ \E answer \in CallbackAnswers : MountSetupFails(d, answer)
    \/ \E answer \in CallbackAnswers : MountFormatFails(d, answer)

\* the loop passes over the head of todo without calling anything
PassOver ==
    /\ todo' = Tail(todo)
    /\ last' = <<>>
    /\ UNCHANGED <<attempted, pc, raised, fails>>

DropDeviceMutantStaysInGraph(d) ==
    /\ dev' = [dev EXCEPT ![d].parents = <<>>]
    /\ tree' = tree
    /\ PassOver

\* no device contains the path: the device loses its parents and leaves the
\* graph
DropDevice(d) ==
    /\ dev' = [dev EXCEPT ![d].parents = <<>>]
    /\ tree' = RemoveDevice(tree, d)
    /\ PassOver

\* get_containing_device raises: nothing catches its exception, which
\* leaves the function
Escape(d, e) ==
    /\ pc' = "returned"
    /\ raised' = e
    /\ last' = <<Event("get_containing_device", d, "fail")>>
    /\ UNCHANGED <<todo, attempted, fails, tree, dev>>

\* one iteration of the loop of mount_filesystems
MountStep ==
    /\ pc = "mount"
    /\ todo # <<>>
    /\ LET d == Head(todo)
           a == Attr(dev, d)
       IN  IF MountSkips(a, args.skip_root)
           THEN /\ PassOver
                /\ UNCHANGED <<tree, dev>>
           ELSE IF a.ftype = "bind" /\ d \notin {"dev", "run"}
           THEN \E parent \in ContainingDeviceResults(tree, dev) :
                    IF parent.raised # "none"
                    THEN Escape(d, parent.raised)
                    ELSE IF parent.device = NoneDev
                    THEN DropDevice(d)
                    ELSE /\ dev' = [dev EXCEPT ![d].parents = <<parent.device>>]
                         /\ tree' = tree
                         /\ MountAttempt(d)
           ELSE /\ UNCHANGED <<tree, dev>>
                /\ MountAttempt(d)
    /\ UNCHANGED <<installer_mode, efi, active, call, args>>
    /\ UNCHANGED <<varsParse, varsScan, varsTarget>>

\* the loop is over: self.active = True
MountEndMutantKeepsFlag ==
    /\ pc = "mount"
    /\ todo = <<>>
    /\ active' = active
    /\ pc' = "returned"
    /\ UNCHANGED <<installer_mode, efi, tree, dev, call, args, todo, attempted, last, raised, fails>>
    /\ UNCHANGED <<varsParse, varsScan, varsTarget>>

MountEnd ==
    /\ pc = "mount"
    /\ todo = <<>>
    /\ active' = TRUE
    /\ pc' = "returned"
    /\ UNCHANGED <<installer_mode, efi, tree, dev, call, args, todo, attempted, last, raised, fails>>
    /\ UNCHANGED <<varsParse, varsScan, varsTarget>>

-----------------------------------------------------------------------------
(* FSSet.umount_filesystems *)

\* the call of umount_filesystems, up to the loop
UmountBegin ==
    /\ pc = "idle"
    /\ \E swapoff \in BOOLEAN :
        Enter("umount_filesystems", [skip_root |-> FALSE, swapoff |-> swapoff])
    /\ pc' = "umount"
    /\ todo' = UmountOrder(tree, dev, efi)
    /\ UNCHANGED ReturnedVars
    /\ UNCHANGED <<varsParse, varsScan, varsTarget>>

UmountTeardownMutantCallback(d) ==
    \/ /\ Continue(d, <<Event("teardown", d, "ok")>>)
       /\ fails' = fails
    \/ /\ InjectFailure
       /\ \E answer \in CallbackAnswers :
            IF answer = ERROR_RAISE
            THEN Propagate(d, <<Event("teardown", d, "fail"), Event("cb", d, answer)>>)
            ELSE Continue(d, <<Event("teardown", d, "fail"), Event("cb", d, answer)>>)

\* device.format.teardown(), called outside any try: its exception leaves
\* the operation
UmountTeardown(d) ==
    \/ /\ Continue(d, <<Event("teardown", d, "ok")>>)
       /\ fails' = fails
    \/ /\ InjectFailure
       /\ Propagate(d, <<Event("teardown", d, "fail")>>)

\* one iteration of the loop of umount_filesystems
UmountStep ==
    /\ pc = "umount"
    /\ todo # <<>>
    /\ LET d == Head(todo)
           a == Attr(dev, d)
       IN  IF ~a.mountable \/ (a.ftype = "swap" /\ ~args.swapoff)
           THEN PassOver
           ELSE UmountTeardown(d)
    /\ UNCHANGED <<installer_mode, efi, tree, dev, active, call, args>>
    /\ UNCHANGED <<varsParse, varsScan, varsTarget>>

\* the loop is over: self.active = False
UmountEnd ==
    /\ pc = "umount"
    /\ todo = <<>>
    /\ active' = FALSE
    /\ pc' = "returned"
    /\ UNCHANGED <<installer_mode, efi, tree, dev, call, args, todo, attempted, last, raised, fails>>
    /\ UNCHANGED <<varsParse, varsScan, varsTarget>>

-----------------------------------------------------------------------------
(* FSSet.turn_on_swap *)

\* the call of turn_on_swap, up to the loop: nothing happens outside
\* installer mode
TurnOnSwapBegin ==
    /\ pc = "idle"
    /\ Enter("turn_on_swap", [skip_root |-> FALSE, swapoff |-> FALSE])
    /\ IF ~installer_mode
       THEN /\ pc' = "returned"
            /\ todo' = <<>>
       ELSE /\ pc' = "swap"
            /\ todo' = swap_devices(tree, dev)
    /\ UNCHANGED ReturnedVars
    /\ UNCHANGED <<varsParse, varsScan, varsTarget>>

\* the two ways a pass of the while loop fails
SwapFailures(d) ==
    {<<Event("setup", d, "fail")>>,
     <<Event("setup", d, "ok"), Event("swapon", d, "fail")>>}

SwapAttemptMutantNoRetry(d) ==
    \/ /\ Continue(d, <<Event("setup", d, "ok"), Event("swapon", d, "ok")>>)
       /\ fails' = fails
    \/ /\ InjectFailure
       /\ \E events \in SwapFailures(d) : \E answer \in CallbackAnswers :
             IF answer = ERROR_RAISE
             THEN Propagate(d, events \o <<Event("cb", d, answer)>>)
             ELSE /\ attempted' = Append(attempted, d)
                  /\ last' = events \o <<Event("cb", d, answer)>>
                  /\ pc' = "swap"
                  /\ todo' = Tail(todo)
                  /\ raised' = raised

\* one pass of the while loop: device.setup() and device.format.setup(); a
\* StorageError or BlockDevError goes to the callback, and any answer but
\* ERROR_RAISE starts another pass on the same device
SwapAttempt(d) ==
    \/ /\ attempted' = Append(attempted, d)
       /\ last' = <<Event("setup", d, "ok"), Event("swapon", d, "ok")>>
       /\ todo' = Tail(todo)
       /\ pc' = "swap"
       /\ UNCHANGED <<raised, fails>>
    \/ /\ InjectFailure
       /\ \E events \in SwapFailures(d) : \E answer \in CallbackAnswers :
             IF answer = ERROR_RAISE
             THEN Propagate(d, events \o <<Event("cb", d, answer)>>)
             ELSE /\ attempted' = Append(attempted, d)
                  /\ last' = events \o <<Event("cb", d, answer)>>
                  /\ pc' = "swap_retry"
                  /\ todo' = todo
                  /\ raised' = raised

\* one iteration of the for loop of turn_on_swap, up to the end of the first
\* pass of its while loop
SwapStep ==
    /\ pc = "swap"
    /\ todo # <<>>
    /\ LET d == Head(todo)
       IN  IF Attr(dev, d).kind = "FileDevice"
           THEN \E parent \in ContainingDeviceResults(tree, dev) :
                    IF parent.raised # "none"
                    THEN Escape(d, parent.raised)
                    ELSE IF parent.device = NoneDev
                    THEN DropDevice(d)
                    ELSE /\ dev' = [dev EXCEPT ![d].parents = <<parent.device>>]
                         /\ tree' = tree
                         /\ SwapAttempt(d)
           ELSE /\ UNCHANGED <<tree, dev>>
                /\ SwapAttempt(d)
    /\ UNCHANGED <<installer_mode, efi, active, call, args>>
    /\ UNCHANGED <<varsParse, varsScan, varsTarget>>

\* a further pass of the while loop on the same device
SwapRetry ==
    /\ pc = "swap_retry"
    /\ SwapAttempt(Head(todo))
    /\ UNCHANGED <<installer_mode, efi, tree, dev, active, call, args>>
    /\ UNCHANGED <<varsParse, varsScan, varsTarget>>

\* the for loop is over
SwapEnd ==
    /\ pc = "swap"
    /\ todo = <<>>
    /\ pc' = "returned"
    /\ UNCHANGED <<installer_mode, efi, tree, dev, active, call, args, todo, attempted, last, raised, fails>>
    /\ UNCHANGED <<varsParse, varsScan, varsTarget>>

-----------------------------------------------------------------------------
(* The fstab files of the model: the file a plan parses is a sequence of at  *)
(* most MaxLines lines of LinePool; a candidate of the installation scan     *)
(* holds one of ScanFiles as its /etc/fstab.                                 *)

L_root ==   \* "/dev/sda1 / ext4 defaults 1 1\n"
    <<47, 100, 101, 118, 47, 115, 100, 97, 49, 32, 47, 32, 101, 120, 116, 52, 32, 100, 101, 102, 97, 117, 108, 116, 115, 32, 49, 32, 49, 10>>
L_home ==   \* "/dev/sda3\t/home ext4 defaults 1 2\n"
    <<47, 100, 101, 118, 47, 115, 100, 97, 51, 9, 47, 104, 111, 109, 101, 32, 101, 120, 116, 52, 32, 100, 101, 102, 97, 117, 108, 116, 115, 32, 49, 32, 50, 10>>
L_noauto ==   \* "/dev/sda2 /mnt ext4 noauto 0 0\n"
    <<47, 100, 101, 118, 47, 115, 100, 97, 50, 32, 47, 109, 110, 116, 32, 101, 120, 116, 52, 32, 110, 111, 97, 117, 116, 111, 32, 48, 32, 48, 10>>
L_noauto_comment ==   \* "/dev/sda2 /data ext4 defaults,noauto # usb\n"
    <<47, 100, 101, 118, 47, 115, 100, 97, 50, 32, 47, 100, 97, 116, 97, 32, 101, 120, 116, 52, 32, 100, 101, 102, 97, 117, 108, 116, 115, 44, 110, 111, 97, 117, 116, 111, 32, 35, 32, 117, 115, 98, 10>>
L_short ==   \* "/dev/sda2 /mnt ext4\n"
    <<47, 100, 101, 118, 47, 115, 100, 97, 50, 32, 47, 109, 110, 116, 32, 101, 120, 116, 52, 10>>
L_long ==   \* "/dev/sda2 /mnt ext4 defaults 0 0 0\n"
    <<47, 100, 101, 118, 47, 115, 100, 97, 50, 32, 47, 109, 110, 116, 32, 101, 120, 116, 52, 32, 100, 101, 102, 97, 117, 108, 116, 115, 32, 48, 32, 48, 32, 48, 10>>
L_unknown ==   \* "/dev/sdz1 /mnt ext4 defaults 0 0\n"
    <<47, 100, 101, 118, 47, 115, 100, 122, 49, 32, 47, 109, 110, 116, 32, 101, 120, 116, 52, 32, 100, 101, 102, 97, 117, 108, 116, 115, 32, 48, 32, 48, 10>>
L_unformatted ==   \* "/dev/sda4 /srv ext4 defaults 0 0\n"
    <<47, 100, 101, 118, 47, 115, 100, 97, 52, 32, 47, 115, 114, 118, 32, 101, 120, 116, 52, 32, 100, 101, 102, 97, 117, 108, 116, 115, 32, 48, 32, 48, 10>>
L_swap ==   \* "/dev/sda5 swap swap defaults 0 0\n"
    <<47, 100, 101, 118, 47, 115, 100, 97, 53, 32, 115, 119, 97, 112, 32, 115, 119, 97, 112, 32, 100, 101, 102, 97, 117, 108, 116, 115, 32, 48, 32, 48, 10>>
L_proc ==   \* "proc /proc proc defaults 0 0\n"
    <<112, 114, 111, 99, 32, 47, 112, 114, 111, 99, 32, 112, 114, 111, 99, 32, 100, 101, 102, 97, 117, 108, 116, 115, 32, 48, 32, 48, 10>>
L_nfs ==   \* "srv:/x /net nfs defaults 0 0\n"
    <<115, 114, 118, 58, 47, 120, 32, 47, 110, 101, 116, 32, 110, 102, 115, 32, 100, 101, 102, 97, 117, 108, 116, 115, 32, 48, 32, 48, 10>>
L_swapfile ==   \* "/swapfile swap swap defaults 0 0\n"
    <<47, 115, 119, 97, 112, 102, 105, 108, 101, 32, 115, 119, 97, 112, 32, 115, 119, 97, 112, 32, 100, 101, 102, 97, 117, 108, 116, 115, 32, 48, 32, 48, 10>>
L_bind ==   \* "/srv /mnt/bind none bind 0 0\n"
    <<47, 115, 114, 118, 32, 47, 109, 110, 116, 47, 98, 105, 110, 100, 32, 110, 111, 110, 101, 32, 98, 105, 110, 100, 32, 48, 32, 48, 10>>
L_tmpfs ==   \* "none /tmp tmpfs defaults 0 0\n"
    <<110, 111, 110, 101, 32, 47, 116, 109, 112, 32, 116, 109, 112, 102, 115, 32, 100, 101, 102, 97, 117, 108, 116, 115, 32, 48, 32, 48, 10>>

LinePool ==
    {L_root, L_home, L_noauto, L_noauto_comment, L_short, L_long,
     L_unknown, L_unformatted, L_swap, L_proc, L_nfs, L_swapfile, L_bind, L_tmpfs}

Files == UNION {[1..n -> LinePool] : n \in 0..MaxLines}

L_four ==   \* "/dev/sda1 / ext4 defaults\n"
    <<47, 100, 101, 118, 47, 115, 100, 97, 49, 32, 47, 32, 101, 120, 116, 52, 32, 100, 101, 102, 97, 117, 108, 116, 115, 10>>

ScanFiles == {<<>>, <<L_four>>, <<L_root>>, <<L_root, L_swap>>, <<L_unknown, L_swap>>}

-----------------------------------------------------------------------------
(* FSSet._parse_one_line *)

\* get_format(fstype).type: "None" when no format class has that type
FormatType(fstype) ==
    CASE fstype = T_ext4  -> "ext4"
      [] fstype = T_xfs   -> "xfs"
      [] fstype = S_swap  -> "swap"
      [] fstype = T_nfs   -> "nfs"
      [] fstype = T_bind  -> "bind"
      [] fstype = T_proc  -> "proc"
      [] fstype = T_tmpfs -> "tmpfs"
      [] OTHER            -> "None"

\* devicetree.resolve_device: the device of the graph that the devspec names
resolve_device(tr, dv, devspec) ==
    LET found == IF StartsWith(devspec, S_UUID)
                 THEN {d \in Range(tr) : /\ dv[d].uuid # NoStr
                                         /\ dv[d].uuid = SubSeq(devspec, Len(S_UUID) + 1, Len(devspec))}
                 ELSE {d \in Range(tr) : dv[d].path = devspec}
    IN  IF found = {} THEN NoneDev ELSE CHOOSE d \in found : TRUE

\* a device object created for an entry, with a fresh format of type ftype
NewDevice(path, kind, ftype, parent) ==
    [Device(path, kind, ftype, ftype \in FsTypes, NoStr, NoStr)
        EXCEPT !.parents = IF parent = NoneDev THEN <<>> ELSE <<parent>>]

\* the attributes that stand in where there is no device
NoAttr == Device(NoStr, "None", "None", FALSE, NoStr, NoStr)

\* the value of the local variables device and fstype at line 473, or the
\* early return of None
Found(d, a, fstype) == [d |-> d, a |-> a, fstype |-> fstype, dropped |-> FALSE, raised |-> "none"]

\* the device an entry creates under the device that contains its path, or
\* the exception of get_containing_device
Contained(new, path, kind, ftype, fstype, parent) ==
    IF parent.raised # "none"
    THEN [Found(NoneDev, NoAttr, fstype) EXCEPT !.raised = parent.raised]
    ELSE Found(new, NewDevice(path, kind, ftype, parent.device), fstype)

\* the mountpoints of the entries _parse_one_line drops
VirtualMountpoints == {P_proc, P_sys, P_dev_shm, P_dev_pts, P_selinux, P_usb, P_efivars}

FindDeviceMutantVirtualFirst(devspec, mountpoint, fstype, options, tr, dv, new) ==
    LET device == resolve_device(tr, dv, devspec)
    IN  IF mountpoint \in VirtualMountpoints
        THEN {[Found(NoneDev, NoAttr, fstype) EXCEPT !.dropped = TRUE]}
        ELSE IF device # NoneDev
        THEN {Found(device, dv[device], fstype)}
        ELSE IF StartsWith(devspec, S_dev_loop)
        THEN {Found(NoneDev, NoAttr, fstype)}
        ELSE IF 58 \in Range(devspec) /\ StartsWith(fstype, T_nfs)
        THEN {Found(new, NewDevice(devspec, "NFSDevice", FormatType(fstype), NoneDev), fstype)}
        ELSE IF StartsWith(devspec, <<47>>) /\ fstype = S_swap
        THEN {Contained(new, devspec, "FileDevice", "swap", fstype, parent) :
                 parent \in ContainingDeviceResults(tr, dv)}
        ELSE IF fstype = T_bind \/ Contains(options, T_bind)
        THEN {Contained(new, devspec, "DirectoryDevice", "bind", T_bind, parent) :
                 parent \in ContainingDeviceResults(tr, dv)}
        ELSE IF devspec = S_none \/ FormatType(fstype) \in NoDevTypes
        THEN {Found(new, NewDevice(S_none, "NoDevice", FormatType(fstype), NoneDev), fstype)}
        ELSE {Found(NoneDev, NoAttr, fstype)}

\* the chain of cases that finds or creates the device of an entry; new is
\* the name of the object the entry would create
FindDevice(devspec, mountpoint, fstype, options, tr, dv, new) ==
    LET device == resolve_device(tr, dv, devspec)
    IN  IF device # NoneDev
        THEN {Found(device, dv[device], fstype)}
        ELSE IF StartsWith(devspec, S_dev_loop)
        THEN {Found(NoneDev, NoAttr, fstype)}
        ELSE IF 58 \in Range(devspec) /\ StartsWith(fstype, T_nfs)
        THEN {Found(new, NewDevice(devspec, "NFSDevice", FormatType(fstype), NoneDev), fstype)}
        ELSE IF StartsWith(devspec, <<47>>) /\ fstype = S_swap
        THEN {Contained(new, devspec, "FileDevice", "swap", fstype, parent) :
                 parent \in ContainingDeviceResults(tr, dv)}
        ELSE IF fstype = T_bind \/ Contains(options, T_bind)
        THEN {Contained(new, devspec, "DirectoryDevice", "bind", T_bind, parent) :
                 parent \in ContainingDeviceResults(tr, dv)}
        ELSE IF mountpoint \in VirtualMountpoints
        THEN {[Found(NoneDev, NoAttr, fstype) EXCEPT !.dropped = TRUE]}
        ELSE IF devspec = S_none \/ FormatType(fstype) \in NoDevTypes
        THEN {Found(new, NewDevice(S_none, "NoDevice", FormatType(fstype), NoneDev), fstype)}
        ELSE {Found(NoneDev, NoAttr, fstype)}

\* device.format = fmt, a fresh format of type ftype
Reformat(a, ftype) ==
    [a EXCEPT !.ftype = ftype, !.mountable = ftype \in FsTypes, !.mountpoint = NoStr,
              !.linux_native = ftype \in {"ext4", "xfs"}, !.check = ftype \in {"ext4"}]

\* the entry's mountpoint (when the format has the attribute) and options
\* are stored in the device's format
WithEntry(a, mountpoint, options) ==
    [a EXCEPT !.mountpoint = IF a.ftype \in FsTypes THEN mountpoint ELSE @,
              !.options = options]

\* how _parse_one_line ends: res is "device" (d is returned, with the
\* attributes a), "None" (None is returned) or the exception raised; events
\* are the calls made on the device
Outcome(res, d, a, events) == [res |-> res, d |-> d, a |-> a, events |-> events]

CheckDeviceMutantLeftUp(c, mountpoint, options, may_fail) ==
    LET d == c.d
        ftype == FormatType(c.fstype)
        dtype == c.a.ftype
        setup == Event("setup", d, "ok")
        teardown == Event("teardown", d, "ok")
    IN  IF c.raised # "none" THEN {Outcome(c.raised, NoneDev, NoAttr, <<>>)}
        ELSE IF c.dropped THEN {Outcome("None", NoneDev, NoAttr, <<>>)}
        ELSE IF d = NoneDev THEN {Outcome("UnrecognizedFSTabEntryError", NoneDev, NoAttr, <<>>)}
        ELSE (IF may_fail
              THEN {Outcome("StorageError", d, c.a, <<Event("setup", d, "fail")>>)}
              ELSE {})
            \cup
             (IF c.fstype # T_auto /\ "None" \in {dtype, ftype}
              THEN {Outcome("UnrecognizedFSTabEntryError", d, c.a, <<setup>>)}
              ELSE IF ftype \in FsTypes /\ c.fstype # T_auto /\ ftype # dtype
              THEN {Outcome("device", d, WithEntry(Reformat(c.a, ftype), mountpoint, options),
                            <<setup, Event("test_mount", d, "ok")>>),
                    Outcome("FSTabTypeMismatchError", d, c.a,
                            <<setup, Event("test_mount", d, "fail"), teardown>>)}
              ELSE {Outcome("device", d, WithEntry(c.a, mountpoint, options), <<setup>>)})

\* lines 473-506: the device is set up and its format is checked against the
\* entry's type; may_fail tells whether device.setup() may raise
CheckDevice(c, mountpoint, options, may_fail) ==
    LET d == c.d
        ftype == FormatType(c.fstype)
        dtype == c.a.ftype
        setup == Event("setup", d, "ok")
        teardown == Event("teardown", d, "ok")
    IN  IF c.raised # "none" THEN {Outcome(c.raised, NoneDev, NoAttr, <<>>)}
        ELSE IF c.dropped THEN {Outcome("None", NoneDev, NoAttr, <<>>)}
        ELSE IF d = NoneDev THEN {Outcome("UnrecognizedFSTabEntryError", NoneDev, NoAttr, <<>>)}
        ELSE (IF may_fail
              THEN {Outcome("StorageError", d, c.a, <<Event("setup", d, "fail")>>)}
              ELSE {})
            \cup
             (IF c.fstype # T_auto /\ "None" \in {dtype, ftype}
              THEN {Outcome("UnrecognizedFSTabEntryError", d, c.a, <<setup, teardown>>)}
              ELSE IF ftype \in FsTypes /\ c.fstype # T_auto /\ ftype # dtype
              THEN {Outcome("device", d, WithEntry(Reformat(c.a, ftype), mountpoint, options),
                            <<setup, Event("test_mount", d, "ok")>>),
                    Outcome("FSTabTypeMismatchError", d, c.a,
                            <<setup, Event("test_mount", d, "fail"), teardown>>)}
              ELSE {Outcome("device", d, WithEntry(c.a, mountpoint, options), <<setup>>)})

parse_one_lineMutantNoautoLast(fields, tr, dv, new, may_fail) ==
    UNION {IF HasNoauto(fields[4]) /\ c.d # NoneDev
           THEN {Outcome("UnrecognizedFSTabEntryError", c.d, c.a,
                         <<Event("setup", c.d, "ok"), Event("teardown", c.d, "ok")>>)}
           ELSE CheckDevice(c, fields[2], fields[4], may_fail) :
               c \in FindDevice(fields[1], fields[2], fields[3], fields[4], tr, dv, new)}

\* FSSet._parse_one_line(*fields): the set of ways the call can end
parse_one_line(fields, tr, dv, new, may_fail) ==
    IF HasNoauto(fields[4])
    THEN {Outcome("UnrecognizedFSTabEntryError", NoneDev, NoAttr, <<>>)}
    ELSE UNION {CheckDevice(c, fields[2], fields[4], may_fail) :
                    c \in FindDevice(fields[1], fields[2], fields[3], fields[4], tr, dv, new)}

-----------------------------------------------------------------------------
(* CryptTab *)

\* the fields of a line of crypttab after (line, _pound, _comment) =
\* line.partition("#") and split(), completed to four; <<>> when the line
\* has fewer than 2 or more than 4 of them
CryptFieldsMutantNoUpperLimit(line) ==
    LET fields == Split(PartitionHead(line, 35))
    IN  IF Len(fields) < 2 THEN <<>>
        ELSE IF Len(fields) = 2 THEN fields \o <<S_none, NoStr>>
        ELSE IF Len(fields) = 3 THEN fields \o <<NoStr>>
        ELSE SubSeq(fields, 1, 4)

CryptFields(line) ==
    LET fields == Split(PartitionHead(line, 35))
    IN  IF ~(2 <= Len(fields) /\ Len(fields) <= 4) THEN <<>>
        ELSE IF Len(fields) = 2 THEN fields \o <<S_none, NoStr>>
        ELSE IF Len(fields) = 3 THEN fields \o <<NoStr>>
        ELSE fields

\* the value of a mapping
Mapping(device, keyfile, options) == [device |-> device, keyfile |-> keyfile, options |-> options]

\* CryptTab.parse: the loop over the lines ls, from the mappings m
RECURSIVE CryptTabLines(_, _, _, _)
CryptTabLines(m, ls, tr, dv) ==
    IF ls = <<>> THEN m
    ELSE LET fields == CryptFields(ls[1])
             device == IF fields = <<>> THEN NoneDev ELSE resolve_device(tr, dv, fields[2])
         IN  CryptTabLines(IF device = NoneDev THEN m
                           ELSE DictPut(m, fields[1], Mapping(device, fields[3], fields[4])),
                           Tail(ls), tr, dv)

\* the mappings of a new CryptTab after parse()
CryptTabParse(ls, tr, dv) == CryptTabLines(<<>>, ls, tr, dv)

\* CryptTab.populate: a mapping for every device of the graph with a luks format
RECURSIVE populate(_, _, _)
populate(m, ds, dv) ==
    IF ds = <<>> THEN m
    ELSE LET a == dv[ds[1]]
         IN  populate(IF a.ftype # "luks" THEN m
                      ELSE DictPut(m, a.map_name,
                                   Mapping(ds[1], IF a.key_file = NoStr THEN S_none ELSE a.key_file,
                                           a.options)),
                      Tail(ds), dv)

\* CryptTab.crypttab: a line "name UUID=uuid keyfile options" per mapping
RECURSIVE CrypttabText(_, _)
CrypttabText(m, dv) ==
    IF m = <<>> THEN <<>>
    ELSE <<[kind |-> "mapping", name |-> m[1].k, devspec |-> S_UUID \o dv[m[1].d.device].uuid,
            keyfile |-> m[1].d.keyfile, options |-> m[1].d.options]>> \o CrypttabText(Tail(m), dv)

-----------------------------------------------------------------------------
(* FSSet.parse_fstab *)

NoArgs == [skip_root |-> FALSE, swapoff |-> FALSE]

\* ''.join(lines)
RECURSIVE Join(_)
Join(ls) == IF ls = <<>> THEN <<>> ELSE ls[1] \o Join(Tail(ls))

\* the name of the device object that the i-th line of the file creates
NewName(i) == <<"fstab1", "fstab2", "fstab3", "fstab4", "fstab5", "fstab6">>[i]

\* the devices that are set up after the calls of events
RECURSIVE UpAfter(_, _)
UpAfter(u, events) ==
    IF events = <<>> THEN u
    ELSE LET e == events[1]
         IN  UpAfter(CASE e.op = "setup" /\ e.res = "ok"    -> u \cup {e.d}
                       [] e.op = "teardown" /\ e.res = "ok" -> u \ {e.d}
                       [] OTHER                             -> u,
                     Tail(events))

\* the call of parse_fstab, up to the loop: os.access (the file may be
\* unreadable), the blkid.tab and crypttab parsers (the model lets both
\* files be there), f.readlines() and the snapshot of the file.  A plan parses its
\* fstab once.
ParseCallMutantClears ==
    /\ pc = "idle"
    /\ Enter("parse_fstab", NoArgs)
    /\ \/ /\ pc' = "returned"
          /\ unread' = <<>>
          /\ UNCHANGED <<orig_fstab, blkid_tab, crypt_tab>>
       \/ /\ blkid_tab' = "parsed"
          /\ crypt_tab' = <<CryptTabParse(crypttab, tree, dev)>>
          /\ orig_fstab' = <<Join(lines)>>
          /\ unread' = lines
          /\ pc' = "parse"
    /\ todo' = <<>>
    /\ preserve_lines' = <<>>
    /\ UNCHANGED <<ReturnedVars, lines, fstab_swaps, output, up, varsScan, varsTarget>>

\* a call of parse_fstab, up to the loop over the lines: the file is not
\* readable and the call returns, or the tables and the snapshot are set
ParseCall ==
    /\ pc = "idle"
    /\ Enter("parse_fstab", NoArgs)
    /\ \/ /\ pc' = "returned"
          /\ unread' = <<>>
          /\ UNCHANGED <<orig_fstab, blkid_tab, crypt_tab>>
       \/ /\ blkid_tab' = "parsed"
          /\ crypt_tab' = <<CryptTabParse(crypttab, tree, dev)>>
          /\ orig_fstab' = <<Join(lines)>>
          /\ unread' = lines
          /\ pc' = "parse"
    /\ todo' = <<>>
    /\ UNCHANGED <<ReturnedVars, lines, preserve_lines, fstab_swaps, output, up, varsScan, varsTarget>>

\* the first call on a plan
ParseBegin ==
    /\ orig_fstab = <<>>
    /\ ParseCall

\* a later call on the same plan, of the same file; the calls stop once more
\* than MaxLines lines are preserved
ParseAgain ==
    /\ orig_fstab # <<>>
    /\ Len(preserve_lines) <= MaxLines
    /\ ParseCall

\* the loop goes on to the next line, with pl as the preserved lines
ParseContinue(pl) ==
    /\ unread' = Tail(unread)
    /\ preserve_lines' = pl
    /\ UNCHANGED <<pc, raised>>

ParseSkipMutantPreserve(raw) ==
    /\ ParseContinue(Append(preserve_lines, raw))
    /\ last' = <<>>
    /\ UNCHANGED <<tree, dev, up, attempted, fails>>

\* a line that has not 4 to 6 fields: continue
ParseSkip(raw) ==
    /\ ParseContinue(preserve_lines)
    /\ last' = <<>>
    /\ UNCHANGED <<tree, dev, up, attempted, fails>>

ParseRaiseMutantRollsBack(e, line) ==
    /\ pc' = "returned"
    /\ raised' = e
    /\ preserve_lines' = <<>>
    /\ UNCHANGED <<unread, tree, dev>>

ParseRaiseMutantCaught(e, line) ==
    /\ ParseContinue(Append(preserve_lines, line))
    /\ UNCHANGED <<tree, dev>>

\* an exception the loop has no handler for leaves parse_fstab
ParseRaise(e, line) ==
    /\ pc' = "returned"
    /\ raised' = e
    /\ UNCHANGED <<unread, preserve_lines, tree, dev>>

ParseAddMutantDropsDuplicate(o, line) ==
    /\ dev' = (o.d :> o.a) @@ dev
    /\ IF o.d \in Range(tree)
       THEN /\ tree' = tree
            /\ ParseContinue(preserve_lines)
       ELSE \/ /\ tree' = Append(tree, o.d)
               /\ ParseContinue(preserve_lines)
            \/ /\ tree' = tree
               /\ ParseContinue(preserve_lines)

\* the device the entry resolved to, with its new attributes, joins the
\* graph unless it is there; _add_device may refuse it with ValueError
ParseAdd(o, line) ==
    /\ dev' = (o.d :> o.a) @@ dev
    /\ IF o.d \in Range(tree)
       THEN /\ tree' = tree
            /\ ParseContinue(preserve_lines)
       ELSE \/ /\ tree' = Append(tree, o.d)
               /\ ParseContinue(preserve_lines)
            \/ /\ tree' = tree
               /\ ParseContinue(Append(preserve_lines, line))

\* one iteration of the loop of parse_fstab
ParseLine ==
    /\ pc = "parse"
    /\ unread # <<>>
    /\ LET line == PartitionHead(Head(unread), 35)
           fields == Split(line)
           new == NewName(Len(lines) - Len(unread) + 1)
       IN  IF ~(4 <= Len(fields) /\ Len(fields) <= 6)
           THEN ParseSkip(Head(unread))
           ELSE \E o \in parse_one_line(fields, tree, dev, new, fails < MaxFailures) :
                    /\ last' = o.events
                    /\ attempted' = IF o.events = <<>> THEN attempted ELSE Append(attempted, o.d)
                    /\ up' = UpAfter(up, o.events)
                    /\ fails' = IF o.res = "StorageError" THEN fails + 1 ELSE fails
                    /\ CASE o.res = "UnrecognizedFSTabEntryError" ->
                                /\ ParseContinue(Append(preserve_lines, line))
                                /\ UNCHANGED <<tree, dev>>
                         [] o.res = "None" ->
                                /\ ParseContinue(preserve_lines)
                                /\ UNCHANGED <<tree, dev>>
                         [] o.res = "device" -> ParseAdd(o, line)
                         [] OTHER -> ParseRaise(o.res, line)
    /\ UNCHANGED <<installer_mode, efi, active, call, args, todo>>
    /\ UNCHANGED <<lines, orig_fstab, blkid_tab, crypt_tab, fstab_swaps, output, varsScan, varsTarget>>

\* the loop is over
ParseEnd ==
    /\ pc = "parse"
    /\ unread = <<>>
    /\ pc' = "returned"
    /\ UNCHANGED <<installer_mode, efi, tree, dev, active, call, args, todo, attempted, last, raised, fails>>
    /\ UNCHANGED <<varsParse, varsScan, varsTarget>>

-----------------------------------------------------------------------------
(* FSSet.fstab *)

\* the classes derived from NetworkStorageDevice
NetworkStorageKinds == {"NFSDevice"}

\* device.depends_on(dep): dep is a parent or an ancestor
RECURSIVE depends_on(_, _, _)
depends_on(dv, d, dep) ==
    \E parent \in Range(Attr(dv, d).parents) : parent = dep \/ depends_on(dv, parent, dep)

FstabDevicesMutantAllSwaps(tr, dv, im, swaps) ==
    Elements(StableSort(KeyedByMountpoint(Elements(mountpoints(tr, dv)), dv)))
        \o swap_devices(tr, dv)

\* the device list of fstab(): the mountpoint devices sorted by mountpoint,
\* then the swap devices (in installer mode the registered ones only)
FstabDevices(tr, dv, im, swaps) ==
    Elements(StableSort(KeyedByMountpoint(Elements(mountpoints(tr, dv)), dv)))
        \o SelectSeq(swap_devices(tr, dv), LAMBDA d : ~im \/ d \in swaps)

\* an item of the text fstab() returns: the header comment, a generated line
\* (its six columns) or a preserved line (its text)
Item(kind, text, devspec, mountpoint, fstype, options, dump, passno) ==
    [kind |-> kind, text |-> text, devspec |-> devspec, mountpoint |-> mountpoint,
     fstype |-> fstype, options |-> options, dump |-> dump, passno |-> passno]

Header == Item("header", NoStr, NoStr, NoStr, "None", NoStr, 0, 0)

Preserved(line) == Item("preserved", line, NoStr, NoStr, "None", NoStr, 0, 0)

FstabLineMutantRootFirst(dv, d, netdevs, root_on_netdev) ==
    LET a == Attr(dv, d)
        mountpoint == IF a.ftype = "swap" THEN S_swap ELSE a.mountpoint
        options0 == IF a.options = NoStr THEN O_defaults ELSE a.options
        passno == IF mountpoint = P_root THEN 1
                  ELSE IF a.check THEN 2 ELSE 0
    IN  IF ~a.mountable /\ a.ftype # "swap" THEN <<>>
        ELSE IF a.ftype # "swap" /\ a.mountpoint = NoStr THEN <<>>
        ELSE <<Item("generated", NoStr, a.path, mountpoint, a.ftype, options0, a.dump, passno)>>

\* the line generated for device d, if one is: fstab_spec is the path
FstabLine(dv, d, netdevs, root_on_netdev) ==
    LET a == Attr(dv, d)
        mountpoint == IF a.ftype = "swap" THEN S_swap ELSE a.mountpoint
        options0 == IF a.options = NoStr THEN O_defaults ELSE a.options
        options1 == IF /\ \E netdev \in netdevs : depends_on(dv, d, netdev)
                       /\ root_on_netdev
                       /\ mountpoint = P_var
                    THEN options0 \o O_x_initrd ELSE options0
        options2 == IF a.encrypted THEN options1 \o O_device_timeout ELSE options1
        passno == IF a.check /\ mountpoint = P_root THEN 1
                  ELSE IF a.check THEN 2 ELSE 0
    IN  IF ~a.mountable /\ a.ftype # "swap" THEN <<>>
        ELSE IF a.kind = "OpticalDevice" THEN <<>>
        ELSE IF a.ftype # "swap" /\ a.mountpoint = NoStr THEN <<>>
        ELSE <<Item("generated", NoStr, a.path, mountpoint, a.ftype, options2, a.dump, passno)>>

RECURSIVE FstabLines(_, _, _, _)
FstabLines(dv, ds, netdevs, root_on_netdev) ==
    IF ds = <<>> THEN <<>>
    ELSE FstabLine(dv, ds[1], netdevs, root_on_netdev)
            \o FstabLines(dv, Tail(ds), netdevs, root_on_netdev)

RECURSIVE PreservedItems(_)
PreservedItems(ls) ==
    IF ls = <<>> THEN <<>> ELSE <<Preserved(ls[1])>> \o PreservedItems(Tail(ls))

\* fstab(): the header, the generated lines, the preserved lines; devices[0]
\* raises IndexError when the device list is empty
Fstab ==
    /\ pc = "idle"
    /\ call' = "fstab"
    /\ pc' = "returned"
    /\ LET ds == FstabDevices(tree, dev, installer_mode, fstab_swaps)
           netdevs == {d \in Range(tree) : Attr(dev, d).kind \in NetworkStorageKinds}
       IN  IF ds = <<>>
           THEN /\ raised' = "IndexError"
                /\ output' = <<>>
           ELSE /\ raised' = "none"
                /\ output' = <<Header>>
                    \o FstabLines(dev, ds, netdevs,
                                  \E netdev \in netdevs : depends_on(dev, ds[1], netdev))
                    \o PreservedItems(preserve_lines)
    /\ UNCHANGED <<ReturnedVars, args, todo, attempted, last, fails>>
    /\ UNCHANGED <<lines, unread, preserve_lines, orig_fstab, blkid_tab, crypt_tab, fstab_swaps, up, varsScan, varsTarget>>

-----------------------------------------------------------------------------
(* parse_fstab(devicetree, chroot), the parser of the installation scan *)

\* the loop of the module-level parse_fstab over the lines ls: split(None, 4)
\* yields 5 fields exactly when the line has at least 5 of them, and the
\* first four are then the same as those of split()
RECURSIVE scan_parse_fstab(_, _, _)
scan_parse_fstab(ls, tr, dv) ==
    IF ls = <<>> THEN [mounts |-> <<>>, swaps |-> <<>>]
    ELSE LET got == scan_parse_fstab(SubSeq(ls, 1, Len(ls) - 1), tr, dv)
             fields == Split(PartitionHead(ls[Len(ls)], 35))
             device == resolve_device(tr, dv, fields[1])
         IN  IF Len(fields) < 5 THEN got
             ELSE IF device = NoneDev THEN got
             ELSE IF fields[3] # S_swap
             THEN [got EXCEPT !.mounts = DictPut(@, fields[2], device)]
             ELSE [got EXCEPT !.swaps = Append(@, device)]

-----------------------------------------------------------------------------
(* find_existing_installations and _find_existing_installations *)

\* devicetree.leaves: the devices that are no device's parent
leaves(tr, dv) ==
    SelectSeq(tr, LAMBDA d : \A c \in Range(tr) : d \notin Range(dv[c].parents))

\* what get_release_string does: it returns the three parts, it returns
\* parts that are missing, it raises ValueError, or it raises something else
ReleaseOutcomes == {"release", "incomplete", "ValueError", "error"}

\* the name of the root, from the outcome of get_release_string
RootName(release, d) ==
    CASE release = "ValueError" -> <<"Linux on", d>>
      [] release = "incomplete" -> <<"Unknown Linux">>
      [] OTHER                  -> <<"product", "version", "arch">>

Root(mounts, swaps, name) == [mounts |-> mounts, swaps |-> swaps, name |-> name]

\* the call of find_existing_installations, up to the loop of the body; the
\* creation of the target directory may fail
ScanBegin ==
    /\ pc = "idle"
    /\ \E teardown_all \in BOOLEAN :
        Enter("find_existing_installations", [teardown_all |-> teardown_all])
    /\ \/ /\ pc' = "scan"
          /\ todo' = leaves(tree, dev)
       \/ /\ pc' = "scan_except"
          /\ todo' = <<>>
    /\ roots' = <<>>
    /\ result' = <<>>
    /\ UNCHANGED <<ReturnedVars, varsParse, sysroot, varsTarget>>

ScanContinueMutantStops(events, u) ==
    /\ todo' = Tail(todo)
    /\ last' = events
    /\ up' = u
    /\ sysroot' = NoneDev
    /\ pc' = IF events # <<>> /\ events[Len(events)].op = "umount" /\ Len(events) = 3
             THEN "scan_except" ELSE pc

\* the loop of the body goes on to the next leaf
ScanContinue(events, u) ==
    /\ todo' = Tail(todo)
    /\ last' = events
    /\ up' = u
    /\ sysroot' = NoneDev
    /\ pc' = pc

\* an exception the body has no handler for leaves the body, with the system
\* root mounted from m
ScanRaise(events, u, m) ==
    /\ todo' = todo
    /\ last' = events
    /\ up' = u
    /\ sysroot' = m
    /\ pc' = "scan_except"
    /\ roots' = roots

\* the candidate d: setup, read-only mount at the system root, the test for
\* /etc/fstab, get_release_string, parse_fstab, umount
ScanCandidate(d) ==
    LET setup == Event("setup", d, "ok")
        mount == Event("mount", d, "ok")
        umount == Event("umount", d, "ok")
    IN  \/ /\ ScanContinue(<<Event("setup", d, "fail")>>, up)
           /\ roots' = roots
        \/ /\ ScanContinue(<<setup, Event("mount", d, "fail"), umount>>, up \cup {d})
           /\ roots' = roots
        \/ /\ ScanContinue(<<setup, mount, umount, Event("teardown", d, "ok")>>, up \ {d})
           /\ roots' = roots
        \/ ScanRaise(<<setup, mount, umount, Event("teardown", d, "fail")>>, up \cup {d}, NoneDev)
        \/ \E release \in ReleaseOutcomes :
            IF release = "error"
            THEN ScanRaise(<<setup, mount, Event("get_release_string", d, "fail")>>, up \cup {d}, d)
            ELSE \/ ScanRaise(<<setup, mount, Event("parse_fstab", d, "fail")>>, up \cup {d}, d)
                 \/ \E f \in ScanFiles :
                      LET got == scan_parse_fstab(f, tree, dev)
                      IN  /\ ScanContinue(<<setup, mount, Event("parse_fstab", d, "ok"), umount>>,
                                          up \cup {d})
                          /\ roots' = IF got.mounts = <<>> /\ got.swaps = <<>>
                                      THEN roots
                                      ELSE Append(roots, Root(got.mounts, got.swaps,
                                                              RootName(release, d)))

\* one iteration of the loop of _find_existing_installations
ScanLeaf ==
    /\ pc = "scan"
    /\ todo # <<>>
    /\ LET d == Head(todo)
       IN  IF ~dev[d].linux_native \/ ~dev[d].mountable \/ ~dev[d].controllable
           THEN /\ ScanContinue(<<>>, up)
                /\ roots' = roots
           ELSE ScanCandidate(d)
    /\ attempted' = Append(attempted, Head(todo))
    /\ UNCHANGED <<ReturnedVars, call, args, raised, fails, result>>
    /\ UNCHANGED <<lines, unread, preserve_lines, orig_fstab, blkid_tab, crypt_tab, fstab_swaps, output, varsTarget>>

\* the body returns roots: the value is held while the finally clause runs
ScanEnd ==
    /\ pc = "scan"
    /\ todo = <<>>
    /\ result' = <<roots>>
    /\ pc' = "scan_finally"
    /\ UNCHANGED <<ReturnedVars, call, args, todo, attempted, last, raised, fails, roots>>
    /\ UNCHANGED <<varsParse, sysroot, varsTarget>>

ScanExceptMutantPropagate ==
    /\ pc = "scan_except"
    /\ raised' = "error"
    /\ pc' = "returned"
    /\ UNCHANGED <<ReturnedVars, call, args, todo, attempted, last, fails, roots, result>>
    /\ UNCHANGED <<varsParse, sysroot, varsTarget>>

\* except Exception: the failure is logged; the function is going to return
\* the empty list
ScanExcept ==
    /\ pc = "scan_except"
    /\ result' = <<<<>>>>
    /\ pc' = "scan_finally"
    /\ UNCHANGED <<ReturnedVars, call, args, todo, attempted, last, raised, fails, roots>>
    /\ UNCHANGED <<varsParse, sysroot, varsTarget>>

\* finally: devicetree.teardown_all() if the parameter says so; it tears
\* every device and format down, or it raises and its exception replaces
\* the return value
ScanFinally ==
    /\ pc = "scan_finally"
    /\ pc' = "returned"
    /\ IF args.teardown_all
       THEN \/ /\ last' = <<Event("teardown_all", NoneDev, "ok")>>
               /\ up' = {}
               /\ sysroot' = NoneDev
               /\ UNCHANGED <<result, raised>>
            \/ /\ last' = <<Event("teardown_all", NoneDev, "fail")>>
               /\ result' = <<>>
               /\ raised' = "error"
               /\ UNCHANGED <<up, sysroot>>
       ELSE /\ last' = <<>>
            /\ UNCHANGED <<up, sysroot, result, raised>>
    /\ UNCHANGED <<ReturnedVars, call, args, todo, attempted, fails, roots>>
    /\ UNCHANGED <<lines, unread, preserve_lines, orig_fstab, blkid_tab, crypt_tab, fstab_swaps, output, varsTarget>>

-----------------------------------------------------------------------------
(* The mount plans the model starts from, as parse_fstab leaves them in the  *)
(* device graph.                                                             *)

DevPath(d) ==
    CASE d = "sda1" -> D_sda1 [] d = "sda2" -> D_sda2 [] d = "sda3" -> D_sda3
      [] d = "sda4" -> D_sda4 [] d = "sda5" -> D_sda5 [] d = "sda6" -> D_sda6
      [] d = "sdb1" -> D_sdb1

Filesystem(d, mountpoint, options) ==
    Device(DevPath(d), "StorageDevice", "ext4", TRUE, mountpoint, options)

\* SwapSpace is not mountable and has no mountpoint attribute
SwapPartition(d) == Device(DevPath(d), "StorageDevice", "swap", FALSE, NoStr, O_defaults)

FsDevs == {"sda1", "sda2", "sda3"}
MountPool == {P_boot, P_var, P_var_log}
ExtraFs == {<<P_data, O_defaults_noauto>>, <<P_var, O_defaults>>, <<P_dev, O_defaults>>}

\* Four filesystems (the root on the last partition), a fifth one that is
\* noauto or shares its mountpoint with another device, a swap partition and
\* a bind mount.
FilesystemLayout ==
    /\ tree = <<"bind1", "sdb1", "sda5", "sda4", "sda3", "sda2", "sda1">>
    /\ \E mp \in [FsDevs -> MountPool] : \E x \in ExtraFs :
        /\ \A d1, d2 \in FsDevs : mp[d1] = mp[d2] => d1 = d2
        /\ dev = [d \in {"sda1", "sda2", "sda3", "sda4", "sda5", "sdb1", "bind1"} |->
                    CASE d \in FsDevs -> Filesystem(d, mp[d], O_defaults)
                      [] d = "sda4"   -> Filesystem(d, P_root, O_defaults)
                      [] d = "sdb1"   -> Filesystem(d, x[1], x[2])
                      [] d = "sda5"   -> SwapPartition(d)
                      [] d = "bind1"  -> Device(P_srv, "DirectoryDevice", "bind", TRUE, P_mnt_bind, O_defaults)]

\* A root filesystem, two swap partitions and a swap file.
SwapLayout ==
    /\ tree = <<"swapfile", "sda6", "sda5", "sda1">>
    /\ dev = [d \in {"sda1", "sda5", "sda6", "swapfile"} |->
                CASE d = "sda1"     -> Filesystem(d, P_root, O_defaults)
                  [] d = "swapfile" -> Device(D_swapfile, "FileDevice", "swap", FALSE, NoStr, O_defaults)
                  [] OTHER          -> SwapPartition(d)]

\* The caller has looked at the outcome of the operation and goes on: the
\* record of the operation is dropped.
Return ==
    /\ pc = "returned"
    /\ pc' = "idle"
    /\ call' = "none"
    /\ args' = [skip_root |-> FALSE, swapoff |-> FALSE]
    /\ todo' = <<>>
    /\ attempted' = <<>>
    /\ last' = <<>>
    /\ raised' = "none"
    /\ fails' = 0
    /\ output' = <<>>
    /\ roots' = <<>>
    /\ result' = <<>>
    /\ UNCHANGED <<ReturnedVars, lines, unread, preserve_lines, orig_fstab, blkid_tab, crypt_tab, fstab_swaps, up, sysroot, varsTarget>>

\* the state of the record of the last operation when there is none
NoRecord ==
    /\ pc = "idle"
    /\ call = "none"
    /\ args = NoArgs
    /\ todo = <<>>
    /\ attempted = <<>>
    /\ last = <<>>
    /\ raised = "none"
    /\ fails = 0
    /\ unread = <<>>
    /\ output = <<>>
    /\ roots = <<>>
    /\ result = <<>>

\* FSSet.__init__, with no fstab at hand
NoFstab ==
    /\ lines = <<>>
    /\ preserve_lines = <<>>
    /\ orig_fstab = <<>>
    /\ blkid_tab = "None"
    /\ crypt_tab = <<>>
    /\ fstab_swaps = {}
    /\ up = {}
    /\ sysroot = NoneDev
    /\ files = {}
    /\ crypttab = <<>>

InitMount ==
    /\ installer_mode \in BOOLEAN
    /\ efi \in BOOLEAN
    /\ FilesystemLayout \/ SwapLayout
    /\ active = FALSE
    /\ NoRecord
    /\ NoFstab

Next ==
    \/ MountBegin \/ MountStep \/ MountEnd
    \/ UmountBegin \/ UmountStep \/ UmountEnd
    \/ TurnOnSwapBegin \/ SwapStep \/ SwapRetry \/ SwapEnd
    \/ Return

Spec == InitMount /\ [][Next]_vars

-----------------------------------------------------------------------------
(* Parsing an fstab and writing it back. *)

\* a partition as the scan of the disks found it: its format has no
\* mountpoint yet
Detected(d, ftype) ==
    Device(DevPath(d), "StorageDevice", ftype, ftype \in FsTypes, NoStr, O_defaults)

\* Two ext4 partitions, an xfs partition, a partition with no recognizable
\* format and a swap partition.
ParseLayout ==
    /\ tree = <<"sda5", "sda4", "sda3", "sda2", "sda1">>
    /\ dev = [d \in {"sda1", "sda2", "sda3", "sda4", "sda5"} |->
                CASE d = "sda5" -> SwapPartition(d)
                  [] d = "sda4" -> Detected(d, "None")
                  [] d = "sda3" -> Detected(d, "xfs")
                  [] OTHER      -> Detected(d, "ext4")]

InitParse ==
    /\ installer_mode \in BOOLEAN
    /\ efi = FALSE
    /\ ParseLayout
    /\ active = FALSE
    /\ NoRecord
    /\ lines \in Files
    /\ preserve_lines = <<>>
    /\ orig_fstab = <<>>
    /\ blkid_tab = "None"
    /\ crypt_tab = <<>>
    /\ fstab_swaps = {}
    /\ up = {}
    /\ sysroot = NoneDev
    /\ files = {}
    /\ crypttab = <<>>

NextParse ==
    \/ ParseBegin \/ ParseLine \/ ParseEnd
    \/ Fstab
    \/ Return

SpecParse == InitParse /\ [][NextParse]_vars

-----------------------------------------------------------------------------
(* The installation scan: a disk with three filesystem partitions (one of    *)
(* them may be not controllable) and a swap partition.                       *)

ScanLayout ==
    /\ tree = <<"sda", "sda1", "sda2", "sda3", "sda5">>
    /\ \E controllable \in BOOLEAN :
        dev = [d \in {"sda", "sda1", "sda2", "sda3", "sda5"} |->
                 CASE d = "sda"  -> Device(D_sda, "DiskDevice", "None", FALSE, NoStr, NoStr)
                   [] d = "sda5" -> [SwapPartition(d) EXCEPT !.parents = <<"sda">>]
                   [] d = "sda3" -> [Detected(d, "xfs") EXCEPT !.parents = <<"sda">>]
                   [] d = "sda2" -> [Detected(d, "ext4") EXCEPT !.parents = <<"sda">>,
                                                                !.controllable = controllable]
                   [] OTHER      -> [Detected(d, "ext4") EXCEPT !.parents = <<"sda">>]]

InitScan ==
    /\ installer_mode \in BOOLEAN
    /\ efi = FALSE
    /\ ScanLayout
    /\ active = FALSE
    /\ NoRecord
    /\ NoFstab

NextScan ==
    \/ ScanBegin \/ ScanLeaf \/ ScanEnd
    \/ ScanExcept \/ ScanFinally
    \/ Return

SpecScan == InitScan /\ [][NextScan]_vars

-----------------------------------------------------------------------------
(* FSSet.create_swap_file *)

\* bound: the number of swap files create_swap_file is asked for
MaxSwapFiles == 2

S_SWAP == <<47, 83, 87, 65, 80>>                 \* "/SWAP"
S_SWAP_2 == <<47, 83, 87, 65, 80, 45, 50>>       \* "/SWAP-2"

\* "%d" % n
RECURSIVE Decimal(_)
Decimal(n) == IF n < 10 THEN <<48 + n>> ELSE Decimal(n \div 10) \o <<48 + (n % 10)>>

\* the name the loop of create_swap_file looks at after count increments
SwapFileName(count) == IF count = 0 THEN S_SWAP ELSE S_SWAP \o <<45>> \o Decimal(count)

\* os.path.exists("%s/%s" % (basedir, filename)), basedir the directory the
\* filesystem with that mountpoint is mounted at under the target root
Exists(fs, mountpoint, filename) == <<mountpoint, filename>> \in fs

RECURSIVE FirstFreeMutantFilesOnly(_, _, _, _, _)
FirstFreeMutantFilesOnly(fs, tr, dv, mountpoint, count) ==
    IF Exists(fs, mountpoint, SwapFileName(count))
    THEN FirstFreeMutantFilesOnly(fs, tr, dv, mountpoint, count + 1)
    ELSE SwapFileName(count)

\* the while loop of create_swap_file, entered with count: the first name
\* that is neither a file under the mountpoint nor the name of a device
RECURSIVE FirstFree(_, _, _, _, _)
FirstFree(fs, tr, dv, mountpoint, count) ==
    IF \/ Exists(fs, mountpoint, SwapFileName(count))
       \/ get_device_by_name(tr, dv, SwapFileName(count)) # NoneDev
    THEN FirstFree(fs, tr, dv, mountpoint, count + 1)
    ELSE SwapFileName(count)

\* the object FileDevice(filename, size=size, parents=[device],
\* fmt=get_format("swap", device=filename)) makes
SwapFile(filename, device) ==
    [Device(filename, "FileDevice", "swap", FALSE, NoStr, O_defaults) EXCEPT !.parents = <<device>>]

SwapFileKey(i) == <<"swapfile1", "swapfile2", "swapfile3", "swapfile4">>[i]

\* the file devices create_swap_file has made, and those of them it has added
\* to the graph
Made == {d \in DOMAIN dev : d \in {SwapFileKey(i) : i \in 1..4}}
Created == Made \cap Range(tree)

\* FSSet.create_swap_file(device, size): the name is chosen, the file device
\* is made, created, set up, formatted and activated, and then added to the
\* graph; a step that raises leaves the function before the device is added,
\* with or without the file on the filesystem
CreateSwapFile ==
    /\ pc = "idle"
    /\ Cardinality(Made) < MaxSwapFiles
    /\ \E device \in {d \in Range(tree) : dev[d].mountable /\ dev[d].mountpoint # NoStr} :
        LET mountpoint == dev[device].mountpoint
            filename == FirstFree(files, tree, dev, mountpoint, 0)
            d == SwapFileKey(Cardinality(Made) + 1)
        IN  /\ call' = "create_swap_file"
            /\ args' = [device |-> device]
            /\ \/ files' = files
               \/ files' = files \cup {<<mountpoint, filename>>}
            /\ dev' = (d :> SwapFile(filename, device)) @@ dev
            /\ \/ /\ tree' = Append(tree, d)
                  /\ last' = <<Event("_add_device", d, "ok")>>
                  /\ raised' = "none"
               \/ /\ tree' = tree
                  /\ last' = <<Event("create", d, "fail")>>
                  /\ raised' = "error"
    /\ pc' = "returned"
    /\ UNCHANGED <<installer_mode, efi, active, todo, attempted, fails, varsParse, varsScan, crypttab>>

\* A root filesystem and a /home filesystem; the graph may hold a swap file
\* an fstab named, and any of the first names may exist as files.
SwapFileLayout ==
    /\ \E claimed \in {NoStr} \cup {SwapFileName(i) : i \in 0..1} :
        /\ tree = IF claimed = NoStr THEN <<"sda3", "sda1">> ELSE <<"sda3", "sda1", "fstab1">>
        /\ dev = [d \in Range(tree) |->
                    CASE d = "sda1" -> Filesystem(d, P_root, O_defaults)
                      [] d = "sda3" -> Filesystem(d, P_home, O_defaults)
                      [] OTHER      -> Device(claimed, "FileDevice", "swap", FALSE, NoStr, O_defaults)]
    /\ files \in SUBSET (({P_root} \X {SwapFileName(i) : i \in 0..2}) \cup {<<P_home, S_SWAP>>})

InitSwapFile ==
    /\ installer_mode = TRUE
    /\ efi = FALSE
    /\ active = FALSE
    /\ NoRecord
    /\ lines = <<>>
    /\ preserve_lines = <<>>
    /\ orig_fstab = <<>>
    /\ blkid_tab = "None"
    /\ crypt_tab = <<>>
    /\ fstab_swaps = {}
    /\ up = {}
    /\ sysroot = NoneDev
    /\ crypttab = <<>>
    /\ SwapFileLayout

NextSwapFile == CreateSwapFile \/ Return

SpecSwapFile == InitSwapFile /\ [][NextSwapFile]_vars

-----------------------------------------------------------------------------
(* FSSet.mdadm_conf and the swap devices registered for the fstab *)

D_md0 == <<47, 100, 101, 118, 47, 109, 100, 47, 109, 100, 48>>   \* "/dev/md/md0"
D_md2 == <<47, 100, 101, 118, 47, 109, 100, 47, 109, 100, 50>>   \* "/dev/md/md2"
D_md127 == <<47, 100, 101, 118, 47, 109, 100, 47, 109, 100, 49, 50, 55>>   \* "/dev/md/md127"
D_sdc1 == <<47, 100, 101, 118, 47, 115, 100, 99, 49>>   \* "/dev/sdc1"

\* an item of the text mdadm_conf() returns: the three header lines, or
\* array.mdadm_conf_entry of the array at path
MdadmHeader == Item("mdadm_header", NoStr, NoStr, NoStr, "None", NoStr, 0, 0)
MdadmEntry(path) == Item("array", NoStr, path, NoStr, "None", NoStr, 0, 0)

RECURSIVE MdadmEntries(_, _)
MdadmEntries(dv, arrays) ==
    IF arrays = <<>> THEN <<>>
    ELSE <<MdadmEntry(Attr(dv, arrays[1]).path)>> \o MdadmEntries(dv, Tail(arrays))

\* list(self.mountpoints.values()) + self.swap_devices
UsedDevices(tr, dv) == Elements(mountpoints(tr, dv)) \o swap_devices(tr, dv)

RequiredMutantAlways(dv, ds, d) == TRUE

\* d is one of the devices ds or something one of them depends on
Required(dv, ds, d) == \E device \in Range(ds) : device = d \/ depends_on(dv, device, d)

\* FSSet.mdadm_conf(): no text without an array; else the header and the
\* entries of the arrays in use, in the order of the sort by path
MdadmConf ==
    /\ pc = "idle"
    /\ Enter("mdadm_conf", NoArgs)
    /\ pc' = "returned"
    /\ LET arrays == Elements(StableSort(KeyedByPath(
                        SelectSeq(devices(tree, dev),
                                  LAMBDA d : Attr(dev, d).kind = "MDRaidArrayDevice"), dev)))
           used == UsedDevices(tree, dev)
       IN  output' = IF arrays = <<>> THEN <<>>
                     ELSE <<MdadmHeader>>
                            \o MdadmEntries(dev, SelectSeq(arrays, LAMBDA array : Required(dev, used, array)))
    /\ UNCHANGED <<ReturnedVars, todo>>
    /\ UNCHANGED <<lines, unread, preserve_lines, orig_fstab, blkid_tab, crypt_tab, fstab_swaps, up, varsScan, varsTarget>>

\* the frame of the three methods that register swap devices
SwapRegistration(name, a, swaps) ==
    /\ pc = "idle"
    /\ Enter(name, a)
    /\ pc' = "returned"
    /\ fstab_swaps' = swaps
    /\ UNCHANGED <<ReturnedVars, todo>>
    /\ UNCHANGED <<lines, unread, preserve_lines, orig_fstab, blkid_tab, crypt_tab, output, up, varsScan, varsTarget>>

\* the devices the callers hand to the three methods: the swap devices, of
\* the graph or not, and a device that holds no swap
Registrable == {d \in DOMAIN dev : dev[d].ftype = "swap" \/ dev[d].mountpoint = P_root}

\* FSSet.add_fstab_swap(device)
AddFstabSwap ==
    \E device \in Registrable :
        SwapRegistration("add_fstab_swap", [device |-> device], fstab_swaps \cup {device})

RemoveFstabSwapMutantClear(device) ==
    SwapRegistration("remove_fstab_swap", [device |-> device], {})

\* FSSet.remove_fstab_swap(device): the KeyError of set.remove is passed over
RemoveFstabSwapOf(device) ==
    SwapRegistration("remove_fstab_swap", [device |-> device], fstab_swaps \ {device})

RemoveFstabSwap == \E device \in Registrable : RemoveFstabSwapOf(device)

\* FSSet.set_fstab_swaps(devices)
SetFstabSwaps ==
    \E ds \in SUBSET Registrable :
        SwapRegistration("set_fstab_swaps", [devices |-> ds], ds)

\* A root and a /home filesystem of either type, two swap partitions, a swap
\* partition that is in no graph, and an array of a container that may hold
\* /data.
ConfLayout ==
    /\ tree \in {<<"sda1", "sda3", "sda5", "sda6", "member", "container">>,
                 <<"sda1", "sda3", "sda5", "sda6">>}
    /\ \E root \in {"ext4", "xfs"}, home \in {"ext4", "xfs"}, container \in {D_md0, D_md2},
          data \in {NoStr, P_data} :
        dev = [d \in Range(tree) \cup {"sdc1"} |->
                 CASE d = "sda1"      -> Device(D_sda1, "StorageDevice", root, TRUE, P_root, O_defaults)
                   [] d = "sda3"      -> Device(D_sda3, "StorageDevice", home, TRUE, P_home, NoStr)
                   [] d = "sdc1"      -> Device(D_sdc1, "StorageDevice", "swap", FALSE, NoStr, O_defaults)
                   [] d = "container" -> Device(container, "MDRaidArrayDevice", "None", FALSE, NoStr, NoStr)
                   [] d = "member"    -> [Device(D_md127, "MDRaidArrayDevice", "ext4", TRUE, data, O_defaults)
                                             EXCEPT !.parents = <<"container">>]
                   [] OTHER           -> SwapPartition(d)]

InitConf ==
    /\ installer_mode \in BOOLEAN
    /\ efi = FALSE
    /\ active = FALSE
    /\ NoRecord
    /\ NoFstab
    /\ ConfLayout

NextConf ==
    \/ MdadmConf
    \/ AddFstabSwap \/ RemoveFstabSwap \/ SetFstabSwaps
    \/ Fstab
    \/ Return

SpecConf == InitConf /\ [][NextConf]_vars

-----------------------------------------------------------------------------
(* FSSet.crypttab *)

\* bound: the number of lines of /etc/crypttab
MaxCryptLines == 2

D_luks1 == <<47, 100, 101, 118, 47, 109, 97, 112, 112, 101, 114, 47, 108, 117, 107, 115, 45, 49>>   \* "/dev/mapper/luks-1"
D_luks2 == <<47, 100, 101, 118, 47, 109, 97, 112, 112, 101, 114, 47, 108, 117, 107, 115, 45, 50>>   \* "/dev/mapper/luks-2"
U_abcd == <<97, 98, 99, 100>>   \* "abcd"
U_ef01 == <<101, 102, 48, 49>>   \* "ef01"
S_key == <<47, 107, 101, 121>>   \* "/key"
K_four == <<108, 117, 107, 115, 45, 49, 32, 85, 85, 73, 68, 61, 97, 98, 99, 100, 32, 110, 111, 110, 101, 32, 110, 111, 110, 101, 10>>
    \* "luks-1 UUID=abcd none none\n"
K_two == <<108, 117, 107, 115, 45, 49, 32, 85, 85, 73, 68, 61, 97, 98, 99, 100, 10>>
    \* "luks-1 UUID=abcd\n"
K_three == <<108, 117, 107, 115, 45, 50, 32, 47, 100, 101, 118, 47, 115, 100, 97, 51, 32, 47, 107, 101, 121, 32, 35, 32, 115, 119, 97, 112, 10>>
    \* "luks-2 /dev/sda3 /key # swap\n"
K_unresolved == <<108, 117, 107, 115, 45, 57, 32, 85, 85, 73, 68, 61, 102, 102, 102, 102, 32, 110, 111, 110, 101, 10>>
    \* "luks-9 UUID=ffff none\n"
K_one == <<108, 117, 107, 115, 45, 49, 10>>
    \* "luks-1\n"
K_five == <<108, 117, 107, 115, 45, 50, 32, 85, 85, 73, 68, 61, 101, 102, 48, 49, 32, 110, 111, 110, 101, 32, 100, 105, 115, 99, 97, 114, 100, 32, 110, 111, 119, 10>>
    \* "luks-2 UUID=ef01 none discard now\n"
K_comment == <<35, 108, 117, 107, 115, 45, 49, 32, 85, 85, 73, 68, 61, 97, 98, 99, 100, 10>>
    \* "#luks-1 UUID=abcd\n"
L_luks_home == <<47, 100, 101, 118, 47, 109, 97, 112, 112, 101, 114, 47, 108, 117, 107, 115, 45, 49, 32, 47, 104, 111, 109, 101, 32, 101, 120, 116, 52, 32, 100, 101, 102, 97, 117, 108, 116, 115, 32, 49, 32, 50, 10>>
    \* "/dev/mapper/luks-1 /home ext4 defaults 1 2\n"
L_luks_swap == <<47, 100, 101, 118, 47, 109, 97, 112, 112, 101, 114, 47, 108, 117, 107, 115, 45, 50, 32, 115, 119, 97, 112, 32, 115, 119, 97, 112, 32, 100, 101, 102, 97, 117, 108, 116, 115, 32, 48, 32, 48, 10>>
    \* "/dev/mapper/luks-2 swap swap defaults 0 0\n"

CryptLinePool == {K_four, K_two, K_three, K_unresolved, K_one, K_five, K_comment}

CryptFiles == UNION {[1..n -> CryptLinePool] : n \in 0..MaxCryptLines}

CryptFstabs == {<<L_root>>, <<L_root, L_luks_home>>, <<L_luks_swap, L_nfs>>,
                <<L_luks_home, L_luks_swap>>}

\* the loop of crypttab() over the mappings m: a mapping stays when one of
\* the devices used is its device or depends on it
PruneMutantKeepAll(m, dv, used) == m

Prune(m, dv, used) == SelectSeq(m, LAMBDA e : Required(dv, used, e.d.device))

\* FSSet.crypttab(): a plan with no CryptTab gets one populated from the
\* graph; the mappings nothing in use needs are deleted; the text of the
\* rest is returned
Crypttab ==
    /\ pc = "idle"
    /\ Enter("crypttab", NoArgs)
    /\ pc' = "returned"
    /\ LET m == IF crypt_tab = <<>> THEN populate(<<>>, tree, dev) ELSE crypt_tab[1]
           kept == Prune(m, dev, UsedDevices(tree, dev))
       IN  /\ crypt_tab' = <<kept>>
           /\ output' = CrypttabText(kept, dev)
    /\ UNCHANGED <<ReturnedVars, todo>>
    /\ UNCHANGED <<lines, unread, preserve_lines, orig_fstab, blkid_tab, fstab_swaps, up, varsScan, varsTarget>>

\* A plain partition, a LUKS partition that maps to an ext4 filesystem and a
\* LUKS partition with a key file that maps to swap space.
CryptLayout ==
    /\ tree = <<"sda1", "sda2", "luks1", "sda3", "luks2">>
    /\ dev = [d \in Range(tree) |->
                CASE d = "sda1"  -> Detected(d, "ext4")
                  [] d = "sda2"  -> [Device(D_sda2, "StorageDevice", "luks", FALSE, NoStr, NoStr)
                                        EXCEPT !.uuid = U_abcd, !.map_name = N_luks1]
                  [] d = "luks1" -> [Device(D_luks1, "LUKSDevice", "ext4", TRUE, NoStr, O_defaults)
                                        EXCEPT !.parents = <<"sda2">>]
                  [] d = "sda3"  -> [Device(D_sda3, "StorageDevice", "luks", FALSE, NoStr, NoStr)
                                        EXCEPT !.uuid = U_ef01, !.map_name = N_luks2, !.key_file = S_key]
                  [] d = "luks2" -> [Device(D_luks2, "LUKSDevice", "swap", FALSE, NoStr, O_defaults)
                                        EXCEPT !.parents = <<"sda3">>]]

InitCrypt ==
    /\ installer_mode = TRUE
    /\ efi = FALSE
    /\ CryptLayout
    /\ active = FALSE
    /\ NoRecord
    /\ lines \in CryptFstabs
    /\ crypttab \in CryptFiles
    /\ preserve_lines = <<>>
    /\ orig_fstab = <<>>
    /\ blkid_tab = "None"
    /\ crypt_tab = <<>>
    /\ fstab_swaps = {}
    /\ up = {}
    /\ sysroot = NoneDev
    /\ files = {}

NextCrypt ==
    \/ ParseBegin \/ ParseLine \/ ParseEnd
    \/ Crypttab
    \/ Return

SpecCrypt == InitCrypt /\ [][NextCrypt]_vars

-----------------------------------------------------------------------------
(* A plan that changes between two calls of crypttab(). *)

\* the caller gives a filesystem of the graph a mountpoint
\* (device.format.mountpoint = ...): FSSet.mountpoints, which reads the
\* graph at every call, has the device from then on
AssignMountpoint ==
    /\ pc = "idle"
    /\ \E d \in Range(tree) :
        /\ dev[d].mountable
        /\ dev[d].mountpoint = NoStr
        /\ dev' = [dev EXCEPT ![d].mountpoint = P_home]
    /\ UNCHANGED <<installer_mode, efi, tree, active, pc, call, args, todo, attempted, last, raised, fails>>
    /\ UNCHANGED <<varsParse, varsScan, varsTarget>>

NextPrune ==
    \/ ParseBegin \/ ParseLine \/ ParseEnd
    \/ Crypttab
    \/ AssignMountpoint
    \/ Return

SpecPrune == InitCrypt /\ [][NextPrune]_vars

-----------------------------------------------------------------------------
(* get_containing_device *)

\* a call of get_containing_device from outside the plan
GetContainingDevice ==
    /\ pc = "idle"
    /\ \E env \in LookupAnswers :
        LET r == get_containing_device(env, tree, dev)
        IN  /\ call' = "get_containing_device"
            /\ args' = env
            /\ raised' = r.raised
            /\ result' = IF r.raised = "none" THEN <<r.device>> ELSE <<>>
    /\ pc' = "returned"
    /\ UNCHANGED <<ReturnedVars, todo, attempted, last, fails, varsParse, sysroot, roots, varsTarget>>

InitContaining ==
    /\ installer_mode \in BOOLEAN
    /\ efi = FALSE
    /\ CryptLayout
    /\ active = FALSE
    /\ NoRecord
    /\ NoFstab

NextContaining == GetContainingDevice \/ Return

SpecContaining == InitContaining /\ [][NextContaining]_vars

-----------------------------------------------------------------------------
(* Entries at the mountpoints of the virtual filesystems. *)

L_sysfs == <<115, 121, 115, 102, 115, 32, 47, 115, 121, 115, 32, 115, 121, 115, 102, 115, 32, 100, 101, 102, 97, 117, 108, 116, 115, 32, 48, 32, 48, 10>>
    \* "sysfs /sys sysfs defaults 0 0\n"
L_proc_partition == <<47, 100, 101, 118, 47, 115, 100, 97, 50, 32, 47, 112, 114, 111, 99, 32, 101, 120, 116, 52, 32, 100, 101, 102, 97, 117, 108, 116, 115, 32, 48, 32, 48, 10>>
    \* "/dev/sda2 /proc ext4 defaults 0 0\n"
L_sys_bind == <<47, 115, 114, 118, 32, 47, 115, 121, 115, 32, 110, 111, 110, 101, 32, 98, 105, 110, 100, 32, 48, 32, 48, 10>>
    \* "/srv /sys none bind 0 0\n"
L_pts_loop == <<47, 100, 101, 118, 47, 108, 111, 111, 112, 48, 32, 47, 100, 101, 118, 47, 112, 116, 115, 32, 101, 120, 116, 52, 32, 100, 101, 102, 97, 117, 108, 116, 115, 32, 48, 32, 48, 10>>
    \* "/dev/loop0 /dev/pts ext4 defaults 0 0\n"
L_shm_noauto == <<116, 109, 112, 102, 115, 32, 47, 100, 101, 118, 47, 115, 104, 109, 32, 116, 109, 112, 102, 115, 32, 110, 111, 97, 117, 116, 111, 32, 48, 32, 48, 10>>
    \* "tmpfs /dev/shm tmpfs noauto 0 0\n"

VirtualLinePool == {L_root, L_proc, L_sysfs, L_proc_partition, L_sys_bind, L_pts_loop, L_shm_noauto}

InitVirtual ==
    /\ installer_mode \in BOOLEAN
    /\ efi = FALSE
    /\ ParseLayout
    /\ active = FALSE
    /\ NoRecord
    /\ lines \in UNION {[1..n -> VirtualLinePool] : n \in 0..MaxLines}
    /\ preserve_lines = <<>>
    /\ orig_fstab = <<>>
    /\ blkid_tab = "None"
    /\ crypt_tab = <<>>
    /\ fstab_swaps = {}
    /\ up = {}
    /\ sysroot = NoneDev
    /\ files = {}
    /\ crypttab = <<>>

SpecVirtual == InitVirtual /\ [][NextParse]_vars

-----------------------------------------------------------------------------
(* The whole life of a plan: every operation of the FSSet on one small      *)
(* graph (a root filesystem, and the swap files create_swap_file puts on    *)
(* it) with a one-line fstab.                                               *)

\* all but one of the swap files the model allows have been tried before:
\* each creation failed after its file had appeared, so the graph holds none
PlanLayout ==
    /\ tree = <<"sda1">>
    /\ dev = [d \in {"sda1"} \cup {SwapFileKey(i) : i \in 1..(MaxSwapFiles - 1)} |->
                IF d = "sda1" THEN Filesystem(d, P_root, O_defaults)
                ELSE SwapFile(SwapFileName((CHOOSE i \in 1..(MaxSwapFiles - 1) : SwapFileKey(i) = d) - 1), "sda1")]
    /\ files = {<<P_root, SwapFileName(i - 1)>> : i \in 1..(MaxSwapFiles - 1)}

\* FSSet.__init__ leaves the plan inactive
InitPlan ==
    /\ installer_mode \in BOOLEAN
    /\ efi = FALSE
    /\ PlanLayout
    /\ active = FALSE
    /\ NoRecord
    /\ lines = <<L_root>>
    /\ preserve_lines = <<>>
    /\ orig_fstab = <<>>
    /\ blkid_tab = "None"
    /\ crypt_tab = <<>>
    /\ fstab_swaps = {}
    /\ up = {}
    /\ sysroot = NoneDev
    /\ crypttab = <<>>

NextPlan ==
    \/ MountBegin \/ MountStep \/ MountEnd
    \/ UmountBegin \/ UmountStep \/ UmountEnd
    \/ TurnOnSwapBegin \/ SwapStep \/ SwapRetry \/ SwapEnd
    \/ ParseBegin \/ ParseLine \/ ParseEnd
    \/ CreateSwapFile
    \/ MdadmConf \/ Crypttab \/ Fstab
    \/ AddFstabSwap \/ RemoveFstabSwap \/ SetFstabSwaps
    \/ Return

SpecPlan == InitPlan /\ [][NextPlan]_vars

-----------------------------------------------------------------------------
(* Files for the comparison of the two parsers: entries of 4, 6 and 7       *)
(* fields, a noauto entry, a swap entry and an entry of no device.          *)

TwoParserPool == {L_four, L_root, L_long, L_noauto, L_swap, L_unknown}

InitTwoParsers ==
    /\ installer_mode \in BOOLEAN
    /\ efi = FALSE
    /\ ParseLayout
    /\ active = FALSE
    /\ NoRecord
    /\ lines \in UNION {[1..n -> TwoParserPool] : n \in 0..MaxLines}
    /\ preserve_lines = <<>>
    /\ orig_fstab = <<>>
    /\ blkid_tab = "None"
    /\ crypt_tab = <<>>
    /\ fstab_swaps = {}
    /\ up = {}
    /\ sysroot = NoneDev
    /\ files = {}
    /\ crypttab = <<>>

SpecTwoParsers == InitTwoParsers /\ [][NextParse]_vars

-----------------------------------------------------------------------------
(* write_escrow_packets, as turn_on_filesystems calls it *)

\* the devices with a luks format that has an escrow certificate
escrow_devices(tr, dv) ==
    SelectSeq(devices(tr, dv), LAMBDA d : Attr(dv, d).ftype = "luks" /\ Attr(dv, d).escrow_cert)

\* os.makedirs raises OSError (IOError is its alias); what format.escrow
\* raises when the packet cannot be written
EscrowErrors == {"IOError", "RuntimeError"}

CaughtMutantIOErrorOnly == {"IOError"}

\* except (IOError, RuntimeError)
Caught == {"IOError", "RuntimeError"}

\* an exception e inside the try block, raised by the call op on d: the
\* handler logs it and the function goes on to its last statement; an
\* exception the handler does not name leaves the function
EscrowFails(op, d, e) ==
    /\ IF e \in Caught
       THEN /\ last' = <<Event(op, d, "fail"), Event("log", d, e)>>
            /\ raised' = "none"
       ELSE /\ last' = <<Event(op, d, "fail")>>
            /\ raised' = e
    /\ pc' = "returned"
    /\ UNCHANGED <<todo, attempted>>

\* lines 1151-1154 and 1157-1166: mount_filesystems has returned (the plan
\* is active); unless mount_only, write_escrow_packets is called, which
\* returns at once without escrow devices and else generates the backup
\* passphrase, outside the try block
EscrowBegin ==
    /\ pc = "idle"
    /\ installer_mode
    /\ active
    /\ \E mount_only \in BOOLEAN :
        /\ Enter("turn_on_filesystems", [mount_only |-> mount_only])
        /\ IF mount_only \/ escrow_devices(tree, dev) = <<>>
           THEN /\ pc' = "returned"
                /\ todo' = <<>>
           ELSE \/ /\ pc' = "escrow_dir"
                   /\ todo' = escrow_devices(tree, dev)
                \/ /\ pc' = "returned"
                   /\ todo' = <<>>
                   /\ raised' = "error"
    /\ UNCHANGED ReturnedVars
    /\ UNCHANGED <<varsParse, varsScan, varsTarget>>

\* util.makedirs(escrow_dir), the first call of the try block
EscrowMakedirs ==
    /\ pc = "escrow_dir"
    /\ \/ /\ pc' = "escrow"
          /\ last' = <<Event("makedirs", NoneDev, "ok")>>
          /\ UNCHANGED <<todo, attempted, raised>>
       \/ EscrowFails("makedirs", NoneDev, "IOError")
    /\ UNCHANGED <<ReturnedVars, call, args, fails>>
    /\ UNCHANGED <<varsParse, varsScan, varsTarget>>

\* one iteration of the loop over the escrow devices
EscrowDevice ==
    /\ pc = "escrow"
    /\ todo # <<>>
    /\ \/ /\ last' = <<Event("escrow", Head(todo), "ok")>>
          /\ attempted' = Append(attempted, Head(todo))
          /\ todo' = Tail(todo)
          /\ UNCHANGED <<pc, raised>>
       \/ \E e \in EscrowErrors : EscrowFails("escrow", Head(todo), e)
    /\ UNCHANGED <<ReturnedVars, call, args, fails>>
    /\ UNCHANGED <<varsParse, varsScan, varsTarget>>

\* the loop is over: write_escrow_packets returns, and turn_on_filesystems
\* with it
EscrowEnd ==
    /\ pc = "escrow"
    /\ todo = <<>>
    /\ pc' = "returned"
    /\ UNCHANGED <<ReturnedVars, call, args, todo, attempted, last, raised, fails>>
    /\ UNCHANGED <<varsParse, varsScan, varsTarget>>

\* A root filesystem and four LUKS partitions, each with or without an
\* escrow certificate; the filesystems are mounted.
EscrowLayout ==
    /\ tree = <<"sda1", "sda2", "sda3", "sda4", "sda5">>
    /\ \E cert \in [{"sda2", "sda3", "sda4", "sda5"} -> BOOLEAN] :
        dev = [d \in Range(tree) |->
                 IF d = "sda1" THEN Filesystem(d, P_root, O_defaults)
                 ELSE [Device(DevPath(d), "StorageDevice", "luks", FALSE, NoStr, NoStr)
                          EXCEPT !.escrow_cert = cert[d]]]

InitEscrow ==
    /\ installer_mode = TRUE
    /\ efi = FALSE
    /\ EscrowLayout
    /\ active = TRUE
    /\ NoRecord
    /\ NoFstab

NextEscrow ==
    \/ EscrowBegin \/ EscrowMakedirs \/ EscrowDevice \/ EscrowEnd
    \/ Return

SpecEscrow == InitEscrow /\ [][NextEscrow]_vars

-----------------------------------------------------------------------------
(* Vocabulary of the properties. *)

Mp(d) == Attr(dev, d).mountpoint

\* the mountable devices with a mountpoint that the plan holds: the graph's
\* and the synthesized ones
PlanSet ==
    {d \in Range(tree) : Attr(dev, d).mountable /\ Mp(d) # NoStr}
        \cup (VirtualNames \ (IF efi THEN {} ELSE {"efivars"}))

DistinctMountpoints == \A d1, d2 \in PlanSet : Mp(d1) = Mp(d2) => d1 = d2

Ascending(s) == \A i, j \in 1..Len(s) : i < j => StrLess(Mp(s[i]), Mp(s[j]))
Descending(s) == \A i, j \in 1..Len(s) : i < j => StrLess(Mp(s[j]), Mp(s[i]))

RECURSIVE MpsOf(_)
MpsOf(s) == IF s = <<>> THEN <<>> ELSE <<Mp(s[1])>> \o MpsOf(Tail(s))

\* the mountpoints of s that are among /, /boot, /var and /var/log
FourOf(s) == SelectSeq(MpsOf(s), LAMBDA m : m \in {P_root, P_boot, P_var, P_var_log})

ReturnedFrom(name) == call = name /\ pc = "returned"
Completed(name) == ReturnedFrom(name) /\ raised = "none"

\* p is a path ancestor of c
IsAncestor(p, c) ==
    /\ p # c
    /\ StartsWith(p, <<47>>)
    /\ \/ p = P_root /\ StartsWith(c, P_root)
       \/ StartsWith(c, p \o <<47>>)

Succeeded(l) == l # <<>> /\ \A i \in 1..Len(l) : l[i].res = "ok"
\* a call inside one of the try blocks of the loops has raised; the parent
\* lookup of a bind mount or a swap file is made outside them
Failed(e) == e.res = "fail" /\ e.op # "get_containing_device"
HasFailure(l) == \E i \in 1..Len(l) : Failed(l[i])
Answer(l) ==
    IF \E i \in 1..Len(l) : l[i].op = "cb"
    THEN l[CHOOSE i \in 1..Len(l) : l[i].op = "cb"].res
    ELSE "none"

\* every failed call is directly followed by one call of the callback for
\* the same device, and the callback is called at no other point
CallbackPerFailure(l) ==
    \A i \in 1..Len(l) :
        /\ Failed(l[i]) => i < Len(l) /\ l[i + 1].op = "cb" /\ l[i + 1].d = l[i].d
        /\ l[i].op = "cb" => i > 1 /\ Failed(l[i - 1])

\* the devices of the mount list that the loop's filters let through
RECURSIVE NotSkipped(_, _)
NotSkipped(s, skip_root) ==
    IF s = <<>> THEN <<>>
    ELSE (IF MountSkips(Attr(dev, s[1]), skip_root) THEN <<>> ELSE <<s[1]>>)
            \o NotSkipped(Tail(s), skip_root)

-----------------------------------------------------------------------------
(* C1: with pairwise distinct mountpoints in the plan, mount_filesystems     *)
(* attempts the devices in ascending string order of mountpoint and, when it *)
(* completes, has attempted every device its filters let through;            *)
(* umount_filesystems tears the formats down in descending order and, when   *)
(* it completes, has torn down every device of the plan; /, /boot, /var and  *)
(* /var/log are mounted in this order and unmounted in the reverse order.    *)
C1_MountOrderAscending ==
    DistinctMountpoints =>
        /\ call = "mount_filesystems" =>
            /\ Ascending(attempted)
            /\ Completed("mount_filesystems") /\ installer_mode =>
                /\ Range(attempted) = {d \in PlanSet : ~MountSkips(Attr(dev, d), args.skip_root)}
                /\ {P_boot, P_var, P_var_log} \subseteq {Mp(d) : d \in PlanSet} /\ ~args.skip_root
                     => FourOf(attempted) = <<P_root, P_boot, P_var, P_var_log>>
        /\ call = "umount_filesystems" =>
            /\ Descending(attempted)
            /\ Completed("umount_filesystems") =>
                /\ Range(attempted) = PlanSet
                /\ {P_boot, P_var, P_var_log} \subseteq {Mp(d) : d \in PlanSet}
                     => FourOf(attempted) = <<P_var_log, P_var, P_boot, P_root>>

C1_Witness ==
    /\ Completed("umount_filesystems")
    /\ DistinctMountpoints
    /\ FourOf(attempted) = <<P_var_log, P_var, P_boot, P_root>>
    /\ Len(attempted) > 4

(* C2: a device whose mountpoint is a path ancestor of another device's is   *)
(* attempted before it by mount_filesystems and torn down after it by        *)
(* umount_filesystems.                                                       *)
C2_ParentBeforeChild ==
    \A i, j \in 1..Len(attempted) :
        IsAncestor(Mp(attempted[i]), Mp(attempted[j])) =>
            /\ call = "mount_filesystems" => i < j
            /\ call = "umount_filesystems" => j < i

C2_Witness ==
    /\ Completed("mount_filesystems")
    /\ {P_root, P_var, P_var_log, P_dev, P_dev_pts} \subseteq {Mp(d) : d \in Range(attempted)}

(* Vocabulary of the properties of parse_fstab and fstab(). *)

\* the fields of a line of the file, after comment stripping
FieldsOf(l) == Split(PartitionHead(l, 35))

WellFormed(l) == 4 <= Len(FieldsOf(l)) /\ Len(FieldsOf(l)) <= 6
Malformed(l) == ~WellFormed(l)
NoautoLine(l) == WellFormed(l) /\ HasNoauto(FieldsOf(l)[4])

\* parse_fstab has read the whole file, and fstab() has just returned a text
FstabAfterParse ==
    /\ ReturnedFrom("fstab")
    /\ raised = "none"
    /\ orig_fstab # <<>>
    /\ unread = <<>>

\* the texts of the preserved lines of the output, in order
RECURSIVE PreservedTexts(_)
PreservedTexts(out) ==
    IF out = <<>> THEN <<>>
    ELSE (IF out[1].kind = "preserved" THEN <<out[1].text>> ELSE <<>>)
            \o PreservedTexts(Tail(out))

\* a is b with some elements left out
RECURSIVE IsSubSeq(_, _)
IsSubSeq(a, b) ==
    IF a = <<>> THEN TRUE
    ELSE IF b = <<>> THEN FALSE
    ELSE IF a[1] = b[1] THEN IsSubSeq(Tail(a), Tail(b))
    ELSE IsSubSeq(a, Tail(b))

\* no generated line comes after a preserved line
GeneratedFirst(out) ==
    \A i, j \in 1..Len(out) :
        out[i].kind = "preserved" /\ out[j].kind = "generated" => j < i

\* the loop of parse_fstab takes a step on the line l
ParsesLine(l) ==
    /\ pc = "parse"
    /\ unread # <<>>
    /\ Head(unread) = l
    /\ <<pc, unread>>' # <<pc, unread>>

TestMountFailed(l) == \E i \in 1..Len(l) : l[i].op = "test_mount" /\ l[i].res = "fail"

\* the entry names a device of the graph and declares a type other than auto
\* that is not the type detected on the device
DeclaredTypeDiffers(l) ==
    /\ WellFormed(l)
    /\ ~NoautoLine(l)
    /\ resolve_device(tree, dev, FieldsOf(l)[1]) # NoneDev
    /\ FieldsOf(l)[3] # T_auto
    /\ FormatType(FieldsOf(l)[3]) # dev[resolve_device(tree, dev, FieldsOf(l)[1])].ftype

-----------------------------------------------------------------------------
(* C3: once parse_fstab has read the whole file, every line of it that has   *)
(* the noauto option is in the text fstab() returns byte for byte, trailing  *)
(* comment and line terminator included, after all generated lines and in    *)
(* the order of the file.                                                    *)
C3_NoautoVerbatim ==
    FstabAfterParse =>
        /\ IsSubSeq(SelectSeq(lines, NoautoLine), PreservedTexts(output))
        /\ GeneratedFirst(output)

(* C4 as the specification states it: once parse_fstab has read the whole    *)
(* file, every line of it with fewer than 4 or more than 6 fields is in the  *)
(* text fstab() returns verbatim, after all generated lines and in the order *)
(* of the file.                                                              *)
C4_MalformedVerbatim ==
    FstabAfterParse =>
        /\ IsSubSeq(SelectSeq(lines, Malformed), PreservedTexts(output))
        /\ GeneratedFirst(output)

\* the loop passes over a malformed line and changes nothing else
C4_SkipStep ==
    \A l \in LinePool :
        ParsesLine(l) /\ Malformed(l) =>
            /\ unread' = Tail(unread)
            /\ UNCHANGED <<pc, raised, preserve_lines, tree, dev, up, attempted>>

\* what has 4 to 6 fields only is preserved, and the preserved lines of the
\* text of fstab() are the preserved-line list, after the generated lines
C4_PreservedWellFormed ==
    /\ \A i \in 1..Len(preserve_lines) : WellFormed(preserve_lines[i])
    /\ ReturnedFrom("fstab") /\ raised = "none" =>
        /\ PreservedTexts(output) = preserve_lines
        /\ GeneratedFirst(output)

(* C4, amended: a line with fewer than 4 or more than 6 fields (after        *)
(* comment stripping) is skipped by parse_fstab: it is not put on the        *)
(* preserved-line list, no device is resolved, set up or added for it, and   *)
(* the text fstab() returns does not contain it, since its preserved lines   *)
(* are the preserved-line list, whose members all have 4 to 6 fields.        *)
C4_MalformedSkipped == []C4_PreservedWellFormed /\ [][C4_SkipStep]_vars

C4_Witness ==
    /\ FstabAfterParse
    /\ \E i \in 1..Len(lines) : Malformed(lines[i])
    /\ \E i \in 1..Len(output) : output[i].kind = "generated"
    /\ \E i \in 1..Len(output) : output[i].kind = "preserved"

\* a failed trial mount on a line whose declared type differs ends the parse
C5_MismatchStep ==
    \A l \in LinePool :
        ParsesLine(l) /\ DeclaredTypeDiffers(l) /\ TestMountFailed(last') =>
            LET d == resolve_device(tree, dev, FieldsOf(l)[1])
            IN  /\ raised' = "FSTabTypeMismatchError"
                /\ pc' = "returned"
                /\ last' = <<Event("setup", d, "ok"), Event("test_mount", d, "fail"),
                             Event("teardown", d, "ok")>>
                /\ d \notin up'
                /\ UNCHANGED <<unread, preserve_lines, tree, dev>>

\* the error is raised in this case only, and it leaves parse_fstab
C5_MismatchRaised ==
    raised = "FSTabTypeMismatchError" =>
        /\ ReturnedFrom("parse_fstab")
        /\ unread # <<>>
        /\ DeclaredTypeDiffers(Head(unread))
        /\ TestMountFailed(last)
        /\ last[1].d \notin up

\* once parse_fstab has been left with lines unread, they stay unread
C5_AbortedStep ==
    orig_fstab # <<>> /\ unread # <<>> /\ pc # "parse" =>
        UNCHANGED <<unread, preserve_lines, tree, dev, up>>

(* C5: when a line names a device of the graph, declares a type other than   *)
(* auto that differs from the detected one, and the trial mount with the     *)
(* declared type fails, the device is torn down again, the type-mismatch     *)
(* error is raised and leaves parse_fstab, and no later line is processed.   *)
C5_TypeMismatchAborts ==
    []C5_MismatchRaised /\ [][C5_MismatchStep /\ C5_AbortedStep]_vars

C5_Witness ==
    /\ raised = "FSTabTypeMismatchError"
    /\ Len(unread) > 1

-----------------------------------------------------------------------------
(* C6: in mount_filesystems every failed setup or format mount is followed   *)
(* by exactly one call of the callback for that device; on ERROR_RAISE the   *)
(* exception propagates and the loop stops at that device; on any other      *)
(* answer the format mount is not attempted after a failed setup, the loop   *)
(* goes on, and at the end every device the filters let through has been     *)
(* attempted, in the order of the list.                                      *)
C6_MountFailureCallback ==
    call = "mount_filesystems" =>
        /\ CallbackPerFailure(last)
        /\ HasFailure(last) => Len(SelectSeq(last, LAMBDA e : e.op = "cb")) = 1
        /\ Answer(last) = ERROR_RAISE =>
            /\ pc = "returned" /\ raised = "error"
            /\ attempted[Len(attempted)] = last[1].d
            /\ Head(todo) = last[1].d
        /\ Answer(last) \notin {ERROR_RAISE, "none"} =>
            /\ pc \in {"mount", "returned"} /\ raised = "none"
            /\ last[1].res = "fail" => \A i \in 1..Len(last) : last[i].op # "mount"
        /\ Completed("mount_filesystems") /\ installer_mode =>
            attempted = NotSkipped(MountOrder(tree, dev, efi), args.skip_root)

C6_Witness ==
    /\ Completed("mount_filesystems")
    /\ fails > 0
    /\ Succeeded(last)
    /\ Len(attempted) > 4

(* C7: in turn_on_swap every failed pass is followed by a call of the        *)
(* callback; ERROR_RAISE propagates and ends the operation; any other answer *)
(* starts another pass on the same device; the loop moves past a device only *)
(* when its setup has succeeded (or the device was dropped from the graph),  *)
(* so the operation completes only with every swap device set up.            *)
C7_SwapInvariant ==
    call = "turn_on_swap" =>
        /\ CallbackPerFailure(last)
        /\ Answer(last) = ERROR_RAISE => pc = "returned" /\ raised = "error"
        /\ Answer(last) \notin {ERROR_RAISE, "none"} =>
            /\ pc = "swap_retry" /\ raised = "none"
            /\ Head(todo) = attempted[Len(attempted)]
        /\ Completed("turn_on_swap") /\ installer_mode =>
            /\ last = <<>> \/ Succeeded(last)
            /\ Range(swap_devices(tree, dev)) \subseteq Range(attempted)

C7_SwapStep ==
    pc \in {"swap", "swap_retry"} /\ todo # <<>> /\ todo' = Tail(todo) =>
        \/ Succeeded(last') /\ last'[1].d = Head(todo)
        \/ Head(todo) \notin Range(tree')

C7_SwapRetryLoop == []C7_SwapInvariant /\ [][C7_SwapStep]_vars

C7_Witness ==
    /\ Completed("turn_on_swap")
    /\ fails > 0
    /\ Succeeded(last)
    /\ Len(attempted) > Cardinality(Range(attempted))

(* C8 as stated: a failing format teardown in umount_filesystems goes to the *)
(* callback.                                                                 *)
C8_TeardownFailureToCallback ==
    call = "umount_filesystems" /\ HasFailure(last) => Answer(last) # "none"

(* C8 amended: a failing format teardown in umount_filesystems is not routed *)
(* through the callback: the exception propagates at once, and the loop      *)
(* stops at that device.                                                     *)
C8_TeardownFailurePropagates ==
    call = "umount_filesystems" =>
        /\ \A i \in 1..Len(last) : last[i].op = "teardown"
        /\ HasFailure(last) =>
            /\ pc = "returned" /\ raised = "error"
            /\ Head(todo) = last[1].d
        /\ ~HasFailure(last) => raised = "none"

C8_Witness ==
    /\ ReturnedFrom("umount_filesystems")
    /\ HasFailure(last)
    /\ Len(todo) > 1

(* C9 as stated: outside installer mode no device or format operation is     *)
(* invoked by mount_filesystems, umount_filesystems or turn_on_swap.         *)
C9_AllNoOps == ~installer_mode => attempted = <<>>

(* C9 amended: outside installer mode mount_filesystems and turn_on_swap are *)
(* no-ops (no device or format call, graph and active flag unchanged);       *)
(* umount_filesystems is not gated by the flag: it tears the formats down    *)
(* and sets the active flag to false.                                        *)
C9_NoOpStep ==
    ~installer_mode /\ pc = "idle" /\ call' \in {"mount_filesystems", "turn_on_swap"} =>
        /\ pc' = "returned" /\ raised' = "none"
        /\ attempted' = <<>> /\ last' = <<>>
        /\ UNCHANGED <<tree, dev, active>>

C9_UmountNotGated ==
    ~installer_mode /\ Completed("umount_filesystems") =>
        /\ VirtualNames \ {"efivars"} \subseteq Range(attempted)
        /\ ~active

C9_NoOpOutsideInstallerMode == [][C9_NoOpStep]_vars /\ []C9_UmountNotGated

C9_Witness == ~installer_mode /\ ReturnedFrom("mount_filesystems")

-----------------------------------------------------------------------------
(* C10 as the specification states it: find_existing_installations lets no   *)
(* exception of the scan body through and returns the roots or the empty     *)
(* list; on every exit path the teardown of all devices is performed, so     *)
(* that no device the scan touched is still set up.                          *)
C10_TeardownOnEveryExit ==
    ReturnedFrom("find_existing_installations") =>
        /\ raised # "none" => last = <<Event("teardown_all", NoneDev, "fail")>>
        /\ raised = "none" =>
            /\ result \in {<<roots>>, <<<<>>>>}
            /\ last = <<Event("teardown_all", NoneDev, "ok")>>
            /\ up = {}

\* the only exception that leaves find_existing_installations is one of
\* teardown_all; the teardown is performed exactly when the parameter asks
\* for it
C10_ScanInvariant ==
    call = "find_existing_installations" =>
        /\ raised # "none" =>
            /\ pc = "returned"
            /\ args.teardown_all
            /\ last = <<Event("teardown_all", NoneDev, "fail")>>
        /\ pc = "returned" /\ raised = "none" =>
            /\ result \in {<<roots>>, <<<<>>>>}
            /\ args.teardown_all =>
                /\ last = <<Event("teardown_all", NoneDev, "ok")>>
                /\ up = {}
                /\ sysroot = NoneDev
            /\ ~args.teardown_all => last = <<>>

\* an exception of the body ends in the empty list, the end of the body in
\* the roots, and the finally clause without teardown changes nothing
C10_ScanStep ==
    /\ pc = "scan_except" =>
        pc' = "scan_finally" /\ result' = <<<<>>>> /\ raised' = "none"
    /\ pc = "scan" /\ todo = <<>> =>
        pc' = "scan_finally" /\ result' = <<roots>> /\ raised' = "none"
    /\ pc = "scan_finally" =>
        /\ pc' = "returned"
        /\ raised' = "none" => result' = result
        /\ ~args.teardown_all => UNCHANGED <<up, sysroot, result, raised>>

(* C10, amended: find_existing_installations lets no exception of the scan   *)
(* body through: it returns the roots when the body ends and the empty list  *)
(* when the body raises; the teardown of all devices is performed on every   *)
(* exit path if and only if the parameter teardown_all is true, and then no  *)
(* device is left set up; with teardown_all false nothing is torn down at    *)
(* the end.                                                                  *)
C10_ScanNeverRaises == []C10_ScanInvariant /\ [][C10_ScanStep]_vars

C10_Witness ==
    /\ ReturnedFrom("find_existing_installations")
    /\ raised = "none"
    /\ roots # <<>>
    /\ result = <<<<>>>>
    /\ ~args.teardown_all
    /\ up # {}

-----------------------------------------------------------------------------
(* C11: between two candidates of the installation scan, and from the end of *)
(* the scan body on, no candidate's filesystem is mounted at the system      *)
(* root, whatever get_release_string and parse_fstab did (a result, an empty *)
(* result or an exception).                                                  *)
C11_StagingRootUnmounted == sysroot = NoneDev

\* the name is the name of a file under the mountpoint or of a device of the graph
Taken(mountpoint, name) ==
    \/ <<mountpoint, name>> \in files
    \/ \E e \in Range(tree) : DeviceName(dev[e]) = name

C12_DistinctNames ==
    \A d1, d2 \in Range(tree) :
        /\ dev[d1].kind = "FileDevice"
        /\ dev[d2].kind = "FileDevice"
        /\ DeviceName(dev[d1]) = DeviceName(dev[d2])
        => d1 = d2

C12_Step ==
    pc = "idle" /\ call' = "create_swap_file" /\ raised' = "none" =>
        LET mountpoint == dev[args'.device].mountpoint
            new == Range(tree') \ Range(tree)
        IN  /\ Cardinality(new) = 1
            /\ \A d \in new :
                /\ dev'[d].kind = "FileDevice"
                /\ dev'[d].ftype = "swap"
                /\ dev'[d].parents = <<args'.device>>
                /\ \E k \in 0..(Cardinality(files) + Len(tree)) :
                    /\ dev'[d].path = SwapFileName(k)
                    /\ ~Taken(mountpoint, SwapFileName(k))
                    /\ \A j \in 0..(k - 1) : Taken(mountpoint, SwapFileName(j))
                /\ Taken(mountpoint, SwapFileName(0)) /\ Taken(mountpoint, SwapFileName(1))
                        /\ ~Taken(mountpoint, S_SWAP_2)
                    => dev'[d].path = S_SWAP_2

(* C12: create_swap_file gives the new swap file the first name of /SWAP,    *)
(* /SWAP-1, /SWAP-2, ... that is neither a file under the target mountpoint  *)
(* nor the name of a device of the graph (/SWAP-2 when the first two are     *)
(* taken) and adds the new device to the graph, so the file devices of the   *)
(* graph have pairwise distinct names whether or not the files appear.       *)
C12_SwapFileNames == []C12_DistinctNames /\ [][C12_Step]_vars

\* two swap files have been created, the second one named /SWAP-2
C12_Witness ==
    /\ Completed("create_swap_file")
    /\ Cardinality(Created) = 2
    /\ \E d \in Created : dev[d].path = S_SWAP_2 /\ last = <<Event("_add_device", d, "ok")>>

\* the position of the entry of array d in the text mdadm_conf() returned, 0
\* when there is none
EntryAt(d) ==
    IF \E i \in 1..Len(output) : output[i].kind = "array" /\ output[i].devspec = dev[d].path
    THEN CHOOSE i \in 1..Len(output) : output[i].kind = "array" /\ output[i].devspec = dev[d].path
    ELSE 0

(* C13: in the text mdadm_conf() returns, the entry of a container comes     *)
(* before the entry of an array that depends on it whenever both entries are *)
(* written.                                                                  *)
C13_ContainerBeforeMember ==
    ReturnedFrom("mdadm_conf") =>
        \A c, m \in Range(tree) :
            /\ dev[c].kind = "MDRaidArrayDevice"
            /\ dev[m].kind = "MDRaidArrayDevice"
            /\ depends_on(dev, m, c)
            /\ EntryAt(c) > 0
            /\ EntryAt(m) > 0
            => EntryAt(c) < EntryAt(m)

\* the generated lines of the text fstab() returned
Generated == SelectSeq(output, LAMBDA item : item.kind = "generated")

\* the device of the graph the generated line item was written for
DeviceOf(item) == CHOOSE d \in Range(tree) : dev[d].path = item.devspec

C14_PassnoRootAlwaysFirst ==
    Completed("fstab") =>
        \A i \in 1..Len(Generated) :
            Generated[i].passno = IF Generated[i].mountpoint = P_root THEN 1
                                  ELSE IF dev[DeviceOf(Generated[i])].check THEN 2 ELSE 0

(* C14: in the text fstab() returns, the passno of a line is 1 when the      *)
(* mountpoint is / and the format of the device requests fsck, 2 when the    *)
(* format requests fsck and the mountpoint is another one, and 0 when the    *)
(* format requests no fsck, the root filesystem included.                    *)
C14_Passno ==
    Completed("fstab") =>
        \A i \in 1..Len(Generated) :
            Generated[i].passno =
                IF dev[DeviceOf(Generated[i])].check
                THEN (IF Generated[i].mountpoint = P_root THEN 1 ELSE 2)
                ELSE 0

\* fstab() has written a root line with passno 0, a line with passno 2 and
\* a swap line
C14_Witness ==
    /\ Completed("fstab")
    /\ \E i, j, k \in 1..Len(Generated) :
        /\ Generated[i].mountpoint = P_root /\ Generated[i].passno = 0
        /\ Generated[j].mountpoint = P_home /\ Generated[j].passno = 2
        /\ Generated[k].fstype = "swap" /\ Generated[k].passno = 0

\* the swap lines of the text fstab() returned
SwapLines == SelectSeq(Generated, LAMBDA item : item.fstype = "swap")

C15_SwapLines ==
    Completed("fstab") =>
        /\ {DeviceOf(SwapLines[i]) : i \in 1..Len(SwapLines)}
            = {d \in Range(swap_devices(tree, dev)) : installer_mode => d \in fstab_swaps}
        /\ \A i, j \in 1..Len(SwapLines) : SwapLines[i].devspec = SwapLines[j].devspec => i = j
        /\ \A i \in 1..Len(SwapLines) : SwapLines[i].mountpoint = S_swap

C15_RegistrationStep ==
    /\ pc = "idle" /\ call' = "add_fstab_swap" =>
        raised' = "none" /\ fstab_swaps' = fstab_swaps \cup {args'.device}
    /\ pc = "idle" /\ call' = "remove_fstab_swap" =>
        raised' = "none" /\ fstab_swaps' = fstab_swaps \ {args'.device}
    /\ pc = "idle" /\ call' = "set_fstab_swaps" =>
        raised' = "none" /\ fstab_swaps' = args'.devices
    /\ pc = "idle" /\ call' \in {"fstab", "mdadm_conf"} => fstab_swaps' = fstab_swaps

(* C15: add_fstab_swap adds the device to the registered set (once, however  *)
(* often it is added), remove_fstab_swap takes it out and does nothing for a *)
(* device that is not registered, set_fstab_swaps replaces the set; fstab()  *)
(* in installer mode writes one swap line for each swap device of the graph  *)
(* that is registered and for no other, and outside installer mode one for   *)
(* every swap device of the graph.                                           *)
C15_RegisteredSwaps == []C15_SwapLines /\ [][C15_RegistrationStep]_vars

\* in installer mode, with one swap partition of the graph and a swap device
\* outside the graph registered, fstab() has written one swap line
C15_Witness ==
    /\ Completed("fstab")
    /\ installer_mode
    /\ fstab_swaps = {"sda5", "sdc1"}
    /\ Len(SwapLines) = 1
    /\ SwapLines[1].devspec = D_sda5

\* the device is one of the devices with a mountpoint or with swap space, or
\* one of them depends on it
Live(d) ==
    \E device \in Range(tree) :
        /\ \/ dev[device].ftype = "swap"
           \/ dev[device].mountable /\ dev[device].mountpoint # NoStr
        /\ device = d \/ depends_on(dev, device, d)

C16_PruneStep ==
    pc = "idle" /\ call' = "crypttab" =>
        LET before == IF crypt_tab = <<>> THEN populate(<<>>, tree, dev) ELSE crypt_tab[1]
            after == crypt_tab'[1]
        IN  /\ raised' = "none"
            /\ Range(after) = {e \in Range(before) : Live(e.d.device)}
            /\ Cardinality({after[i].k : i \in 1..Len(after)}) = Len(after)
            /\ Prune(after, dev', UsedDevices(tree', dev')) = after

C16_ParseAgain ==
    Completed("crypttab") /\ orig_fstab # <<>> =>
        Range(Prune(CryptTabParse(crypttab, tree, dev), dev, UsedDevices(tree, dev)))
            = Range(crypt_tab[1])

(* C16: crypttab() leaves in the mapping table exactly the mappings it found *)
(* there (those of populate() when the plan had no table) whose device is a  *)
(* device with a mountpoint or with swap space or one such a device depends  *)
(* on; pruning the result again changes nothing, and parsing the same        *)
(* crypttab again and pruning it against the same devices gives the same     *)
(* mappings.                                                                 *)
C16_CrypttabPrunes == []C16_ParseAgain /\ [][C16_PruneStep]_vars

\* crypttab() has pruned one of the two mappings parse_fstab read: no
\* mountpoint needs luks-1, and the swap space on luks-2 is in the graph
C16_Witness ==
    /\ Completed("crypttab")
    /\ orig_fstab # <<>>
    /\ unread = <<>>
    /\ Len(CryptTabParse(crypttab, tree, dev)) = 2
    /\ Len(crypt_tab[1]) = 1
    /\ crypt_tab[1][1].k = N_luks2

\* the whitespace-separated fields of a crypttab line before its comment
CryptLineFields(l) == Split(PartitionHead(l, 35))

\* the line has 2 to 4 fields and its devspec resolves
CryptLineMaps(l) ==
    /\ Len(CryptLineFields(l)) \in 2..4
    /\ resolve_device(tree, dev, CryptLineFields(l)[2]) # NoneDev

\* the mapping e is the one the line l describes
MappingOf(e, l) ==
    LET f == CryptLineFields(l)
    IN  /\ e.k = f[1]
        /\ e.d.device = resolve_device(tree, dev, f[2])
        /\ e.d.keyfile = IF Len(f) >= 3 THEN f[3] ELSE S_none
        /\ e.d.options = IF Len(f) = 4 THEN f[4] ELSE NoStr

C17_ParseStep ==
    pc = "idle" /\ pc' = "parse" =>
        LET m == crypt_tab'[1]
        IN  /\ {m[i].k : i \in 1..Len(m)}
                = {CryptLineFields(crypttab[n])[1] : n \in {n \in 1..Len(crypttab) : CryptLineMaps(crypttab[n])}}
            /\ \A i \in 1..Len(m) :
                \E n \in 1..Len(crypttab) :
                    /\ CryptLineMaps(crypttab[n])
                    /\ MappingOf(m[i], crypttab[n])
                    /\ \A n2 \in (n + 1)..Len(crypttab) :
                        CryptLineMaps(crypttab[n2]) => CryptLineFields(crypttab[n2])[1] # m[i].k
            /\ \A i, j \in 1..Len(m) : m[i].k = m[j].k => i = j
            /\ crypttab # <<>> /\ crypttab[Len(crypttab)] = K_four =>
                \E i \in 1..Len(m) : m[i].k = N_luks1 /\ m[i].d.keyfile = S_none
            /\ preserve_lines' = preserve_lines
            /\ tree' = tree

(* C17: CryptTab.parse makes a mapping for a line exactly when the line has  *)
(* 2 to 4 fields before its comment and its devspec resolves; the mapping    *)
(* holds the resolved device, the keyfile ("none" when the line has none)    *)
(* and the options ("" when the line has none), the last such line of a name *)
(* winning; the line luks-1 UUID=abcd none none gives the mapping luks-1     *)
(* with keyfile "none"; a line that does not resolve leaves no mapping and   *)
(* is kept nowhere.                                                          *)
C17_CryptTabParse == [][C17_ParseStep]_vars

\* parse_fstab has just parsed a crypttab with the line luks-1 UUID=abcd
\* none none and a line that does not resolve: one mapping
C17_Witness ==
    /\ pc = "parse"
    /\ unread = lines
    /\ crypttab = <<K_unresolved, K_four>>
    /\ Len(crypt_tab[1]) = 1
    /\ crypt_tab[1][1] = [k |-> N_luks1, d |-> Mapping("sda2", S_none, S_none)]

\* the columns 2 to 4 of a source entry and of a generated line
EntryColumns(l) == <<FieldsOf(l)[2], FormatType(FieldsOf(l)[3]), FieldsOf(l)[4]>>
ItemColumns(item) == <<item.mountpoint, item.fstype, item.options>>

SwapEntry(l) == FieldsOf(l)[3] = S_swap

\* the graph as the scan of the disks left it, without the devices
\* parse_fstab created
Scanned == SelectSeq(tree, LAMBDA d : d \notin {NewName(i) : i \in 1..6})

\* the device of the scanned graph the entry l names
EntryDevice(l) == resolve_device(Scanned, dev, FieldsOf(l)[1])

\* fstab() has returned right after parse_fstab read a file all of whose
\* lines are entries that name devices of the scanned graph, pairwise
\* distinct ones at pairwise distinct mountpoints, and none of which was
\* preserved
AllRecognized ==
    /\ FstabAfterParse
    /\ lines # <<>>
    /\ preserve_lines = <<>>
    /\ \A n \in 1..Len(lines) :
        /\ WellFormed(lines[n])
        /\ EntryDevice(lines[n]) # NoneDev
    /\ \A n, k \in 1..Len(lines) :
        \/ n = k
        \/ /\ FieldsOf(lines[n])[1] # FieldsOf(lines[k])[1]
           /\ FieldsOf(lines[n])[2] # FieldsOf(lines[k])[2]

\* the generated lines gs are, column for column, the entries among ns
RoundTrip(gs, ns) ==
    /\ Len(gs) = Cardinality(ns)
    /\ \A n \in ns :
        \E i \in 1..Len(gs) :
            /\ gs[i].devspec = FieldsOf(lines[n])[1]
            /\ ItemColumns(gs[i]) = EntryColumns(lines[n])

C19_NeverRaises ==
    ReturnedFrom("get_containing_device") =>
        /\ raised = "none"
        /\ result # <<>>
        /\ ~args.exists \/ ~args.stat \/ ~args.link \/ args.readlink = NoStr
                \/ (StartsWith(Basename(args.readlink), N_dm_prefix) /\ ~args.name_from_node)
            => result = <<NoneDev>>

\* the loop of parse_fstab takes a step on an entry without noauto whose
\* mountpoint is one of the virtual ones
ParsesVirtualEntry ==
    /\ pc = "parse"
    /\ unread # <<>>
    /\ <<pc, unread>>' # <<pc, unread>>
    /\ WellFormed(Head(unread))
    /\ ~HasNoauto(FieldsOf(Head(unread))[4])
    /\ FieldsOf(Head(unread))[2] \in VirtualMountpoints

\* the entry is dropped: no device is set up or added, nothing is preserved
\* and the loop goes on
Dropped ==
    /\ unread' = Tail(unread)
    /\ last' = <<>>
    /\ UNCHANGED <<pc, raised, tree, dev, up, attempted, preserve_lines>>

\* one of the cases _parse_one_line tries before it looks at the mountpoint
\* takes the entry with these fields
TakenBefore(f) ==
    \/ resolve_device(tree, dev, f[1]) # NoneDev
    \/ StartsWith(f[1], S_dev_loop)
    \/ 58 \in Range(f[1]) /\ StartsWith(f[3], T_nfs)
    \/ StartsWith(f[1], <<47>>) /\ f[3] = S_swap
    \/ f[3] = T_bind \/ Contains(f[4], T_bind)

C20_DroppedByMountpointAlone == [][ParsesVirtualEntry => Dropped]_vars

C20_DropStep ==
    ParsesVirtualEntry =>
        LET f == FieldsOf(Head(unread))
        IN  /\ ~TakenBefore(f) => Dropped
            /\ resolve_device(tree, dev, f[1]) # NoneDev =>
                last' # <<>> /\ last'[1] \in {Event("setup", resolve_device(tree, dev, f[1]), res) :
                                                res \in {"ok", "fail"}}
            /\ resolve_device(tree, dev, f[1]) = NoneDev /\ StartsWith(f[1], S_dev_loop) =>
                preserve_lines' = Append(preserve_lines, PartitionHead(Head(unread), 35))

(* C20: an entry without noauto whose mountpoint is /proc, /sys, /dev/shm,   *)
(* /dev/pts, /sys/fs/selinux, /proc/bus/usb or /sys/firmware/efi/efivars is  *)
(* dropped (no device returned, set up or added, the line not preserved)     *)
(* when its devspec resolves to no device of the graph and does not start    *)
(* with /dev/loop and the entry is no NFS, swap-file or bind entry; an entry *)
(* at such a mountpoint whose devspec names a device of the graph is treated *)
(* like any other entry of that device, and one on /dev/loop is preserved.   *)
C20_VirtualEntries == [][C20_DropStep]_vars

\* the loop has dropped the entry of proc and has set up the partition of an
\* entry at /proc
C20_Witness ==
    /\ pc = "parse"
    /\ lines = <<L_proc, L_proc_partition>>
    /\ unread = <<>>
    /\ preserve_lines = <<>>
    /\ dev["sda2"].mountpoint = P_proc
    /\ "sda2" \in up

-----------------------------------------------------------------------------
\* the step that ends an operation's loop without an exception
Completes(loop) == pc = loop /\ pc' = "returned" /\ raised' = "none"

C21_Step ==
    /\ Completes("mount") => installer_mode /\ active'
    /\ Completes("umount") => ~active'
    /\ active' # active => Completes("mount") \/ Completes("umount")

(* C21: the active flag is false after construction; it becomes true exactly *)
(* when mount_filesystems completes in installer mode and false exactly when *)
(* umount_filesystems completes; no step of parse_fstab, turn_on_swap,       *)
(* create_swap_file, fstab(), crypttab(), mdadm_conf() or of the swap        *)
(* registration changes it, nor does a mount_filesystems or                 *)
(* umount_filesystems that raises or a mount_filesystems outside installer   *)
(* mode.                                                                     *)
C21_ActivePhases ==
    /\ ~active
    /\ [](~installer_mode => ~active)
    /\ [][C21_Step]_vars

\* the plan is active and another operation has run since and left it so
C21_Witness ==
    /\ active
    /\ pc = "returned"
    /\ call \in {"parse_fstab", "turn_on_swap", "create_swap_file", "fstab", "crypttab", "mdadm_conf"}

-----------------------------------------------------------------------------
\* the iteration of parse_fstab that is about to run hands an entry (4 to 6
\* fields) to _parse_one_line
EntryNext ==
    /\ pc = "parse"
    /\ unread # <<>>
    /\ Len(Split(PartitionHead(Head(unread), 35))) \in 4..6

NextFields == Split(PartitionHead(Head(unread), 35))

C22_Step ==
    EntryNext =>
        LET device == resolve_device(tree, dev, NextFields[1])
            new == NewName(Len(lines) - Len(unread) + 1)
        IN  /\ HasNoauto(NextFields[4]) =>
                /\ last' = <<>> /\ up' = up /\ tree' = tree /\ dev' = dev
                /\ raised' = "none"
                /\ preserve_lines' = Append(preserve_lines, PartitionHead(Head(unread), 35))
            /\ ~HasNoauto(NextFields[4]) /\ device # NoneDev =>
                /\ last' # <<>>
                /\ \A i \in DOMAIN last' : last'[i].d = device
                /\ tree' = tree
                /\ DOMAIN dev' = DOMAIN dev
            /\ DOMAIN dev' # DOMAIN dev =>
                /\ ~HasNoauto(NextFields[4]) /\ device = NoneDev
                /\ DOMAIN dev' = DOMAIN dev \cup {new}
                /\ dev'[new].kind \in {"NFSDevice", "FileDevice", "DirectoryDevice", "NoDevice"}

(* C22: _parse_one_line rejects a noauto entry as unrecognized before any    *)
(* device is looked up, set up or made (the line is preserved and nothing    *)
(* else changes); for any other entry whose devspec resolve_device finds in  *)
(* the graph, every call of the iteration is made on exactly that device and *)
(* no device is constructed; an NFS, file, directory or placeholder device   *)
(* is constructed only for an entry without noauto whose devspec did not     *)
(* resolve.                                                                  *)
C22_FirstMatchWins == [][C22_Step]_vars

\* the entry "/dev/sda5 swap swap ..." (a path that starts with / and the
\* type swap, as a swap-file entry has them) was taken for the partition
C22_Witness ==
    /\ pc = "parse"
    /\ Len(lines) - Len(unread) >= 1
    /\ lines[Len(lines) - Len(unread)] = L_swap
    /\ last = <<Event("setup", "sda5", "ok")>>
    /\ DOMAIN dev = {"sda1", "sda2", "sda3", "sda4", "sda5"}

-----------------------------------------------------------------------------
\* the step ends an iteration in which _parse_one_line refused the entry:
\* the type-mismatch error leaves parse_fstab, an unrecognized entry is
\* preserved (the graph as it was)
Rejected ==
    \/ raised' = "FSTabTypeMismatchError"
    \/ preserve_lines' # preserve_lines /\ dev' = dev

C23_Step ==
    EntryNext =>
        LET device == resolve_device(tree, dev, NextFields[1])
            n == Len(last')
        IN  /\ Rejected /\ (\E i \in DOMAIN last' : last'[i].op = "setup" /\ last'[i].res = "ok") =>
                /\ last'[n].op = "teardown" /\ last'[n].res = "ok"
                /\ last'[n].d = last'[1].d
                /\ last'[n].d \notin up'
            /\ /\ ~HasNoauto(NextFields[4])
               /\ device # NoneDev
               /\ NextFields[3] # T_auto
               /\ "None" \in {dev[device].ftype, FormatType(NextFields[3])}
               /\ last'[1].res = "ok"
               => /\ last' = <<Event("setup", device, "ok"), Event("teardown", device, "ok")>>
                  /\ device \notin up'
                  /\ preserve_lines' = Append(preserve_lines, PartitionHead(Head(unread), 35))
                  /\ raised' = "none" /\ pc' = "parse" /\ unread' = Tail(unread)
                  /\ tree' = tree /\ dev' = dev

(* C23: when _parse_one_line refuses an entry whose device it has set up,    *)
(* the device's teardown is the last call before the exception and the       *)
(* device is not left set up; an entry of a graph device that declares a     *)
(* type other than auto, where the detected type or the declared type is     *)
(* None, has its device set up and torn down and is refused as unrecognized: *)
(* its line is preserved, the graph is unchanged and the loop goes on.       *)
C23_TornDownBeforeRejection == [][C23_Step]_vars

\* the entry of the partition without a recognizable format has been refused
C23_Witness ==
    /\ pc = "parse"
    /\ last = <<Event("setup", "sda4", "ok"), Event("teardown", "sda4", "ok")>>
    /\ preserve_lines # <<>>
    /\ preserve_lines[Len(preserve_lines)] = PartitionHead(L_unformatted, 35)

-----------------------------------------------------------------------------
\* the module-level parse_fstab records a mount or a swap for the line
Recorded(line, tr, dv) ==
    LET got == scan_parse_fstab(<<line>>, tr, dv)
    IN  got.mounts # <<>> \/ got.swaps # <<>>

\* the step is an iteration of FSSet.parse_fstab in which _parse_one_line
\* returned a device
ResolvedStep ==
    /\ raised' = "none"
    /\ last' # <<>>
    /\ last'[Len(last')].res = "ok"
    /\ last'[Len(last')].op # "teardown"

(* C24: for every line of an fstab, the module-level parse_fstab of the      *)
(* installation scan records a mount or a swap exactly when FSSet.parse_fstab *)
(* resolves the line to a device on the same graph, lines of 4 fields and    *)
(* noauto lines included (an iteration in which device.setup() raises set    *)
(* aside).                                                                   *)
C24_SameLines ==
    [][pc = "parse" /\ unread # <<>> /\ raised' # "StorageError" =>
          (Recorded(Head(unread), tree, dev) <=> ResolvedStep)]_vars

-----------------------------------------------------------------------------
\* the mappings of the plan before any pruning: those parse_fstab read from
\* /etc/crypttab, or those of populate() when the plan has parsed no fstab
AllMappings ==
    IF blkid_tab = "parsed" THEN CryptTabParse(crypttab, tree, dev) ELSE populate(<<>>, tree, dev)

(* C25: every call of crypttab() leaves (and writes) the mappings that the   *)
(* devices in use at the time of the call require, whatever earlier calls    *)
(* pruned: a mapping an earlier call deleted is there again once a           *)
(* mountpoint on a device that depends on its encrypted device has been      *)
(* added.                                                                    *)
C25_IndependentOfEarlierCalls ==
    [][pc = "idle" /\ call' = "crypttab" =>
          /\ crypt_tab'[1] = Prune(AllMappings, dev, UsedDevices(tree, dev))
          /\ output' = CrypttabText(Prune(AllMappings, dev, UsedDevices(tree, dev)), dev)]_vars

-----------------------------------------------------------------------------
\* the devices get_containing_device can return on the graph at hand
Containers == {r.device : r \in {x \in ContainingDeviceResults(tree, dev) : x.raised = "none"}} \ {NoneDev}

\* the iteration about to run is one that looks the parent of its device up
Reresolves ==
    \/ /\ pc = "mount" /\ todo # <<>>
       /\ Attr(dev, Head(todo)).ftype = "bind"
       /\ Head(todo) \notin {"dev", "run"}
       /\ ~MountSkips(Attr(dev, Head(todo)), args.skip_root)
    \/ /\ pc = "swap" /\ todo # <<>>
       /\ Attr(dev, Head(todo)).kind = "FileDevice"

C26_Step ==
    LET d == Head(todo)
    IN  /\ Reresolves =>
            \/ /\ dev' = [dev EXCEPT ![d].parents = <<>>]
               /\ tree' = RemoveDevice(tree, d)
               /\ d \notin Range(tree')
               /\ last' = <<>> /\ attempted' = attempted
               /\ todo' = Tail(todo) /\ pc' = pc /\ raised' = "none"
            \/ /\ \E parent \in Containers : dev' = [dev EXCEPT ![d].parents = <<parent>>]
               /\ tree' = tree
               /\ last' # <<>> /\ last'[1].op = "setup" /\ last'[1].d = d
            \/ /\ last' = <<Event("get_containing_device", d, "fail")>>
               /\ raised' # "none" /\ pc' = "returned"
               /\ dev' = dev /\ tree' = tree
        /\ pc \in {"mount", "swap", "swap_retry"} /\ ~Reresolves => dev' = dev /\ tree' = tree

(* C26: an iteration of mount_filesystems on a bind device other than the    *)
(* synthesized /dev and /run (one that the loop's filters let through) and   *)
(* an iteration of turn_on_swap on a file device look the containing device  *)
(* up: when none is found the device loses its parents and leaves the graph, *)
(* nothing is called on it and the loop goes on with the next device; when   *)
(* one is found it becomes the device's only parent and the device is set    *)
(* up; the only other outcome is an exception of the lookup itself, which    *)
(* leaves the operation.  No other iteration changes the graph.              *)
C26_LazyParents == [][C26_Step]_vars

\* the bind device was dropped and a later device has been mounted
C26_Witness ==
    /\ pc = "mount"
    /\ "bind1" \in DOMAIN dev /\ "bind1" \notin Range(tree)
    /\ dev["bind1"].parents = <<>>
    /\ last # <<>> /\ last[Len(last)].op = "mount"

-----------------------------------------------------------------------------
\* the array devices of the graph, and those that a device with a mountpoint
\* or with swap space is or depends on
Arrays == {d \in Range(tree) : dev[d].kind = "MDRaidArrayDevice"}
ArraysInUse ==
    {d \in Arrays : \E u \in Range(UsedDevices(tree, dev)) : u = d \/ depends_on(dev, u, d)}

\* C27 as stated: mdadm_conf() returns "" exactly when the graph has no
\* array, and else the header and one entry for every array of the graph.
C27_EntryPerArray ==
    ReturnedFrom("mdadm_conf") =>
        /\ output = <<>> <=> Arrays = {}
        /\ Arrays # {} =>
            /\ output[1] = MdadmHeader
            /\ Len(output) = 1 + Cardinality(Arrays)
            /\ \A d \in Arrays : EntryAt(d) > 1

(* C27, amended: mdadm_conf() returns "" exactly when the graph has no       *)
(* array; else it returns the header followed by one entry for each array    *)
(* that a device with a mountpoint or with swap space is or depends on, in   *)
(* ascending string order of the paths and none twice; an array nothing in   *)
(* use needs has no entry, and the text is the header alone when no array is *)
(* in use.                                                                   *)
C27_EntryPerArrayInUse ==
    ReturnedFrom("mdadm_conf") =>
        /\ output = <<>> <=> Arrays = {}
        /\ Arrays # {} =>
            /\ output[1] = MdadmHeader
            /\ Len(output) = 1 + Cardinality(ArraysInUse)
            /\ \A d \in Arrays : IF d \in ArraysInUse THEN EntryAt(d) > 1 ELSE EntryAt(d) = 0
            /\ \A i, j \in 2..Len(output) : i < j => StrLess(output[i].devspec, output[j].devspec)

\* the graph has arrays, nothing mounted is on them, and the text is the
\* header alone
C27_Witness ==
    /\ ReturnedFrom("mdadm_conf")
    /\ Arrays # {}
    /\ ArraysInUse = {}
    /\ output = <<MdadmHeader>>

-----------------------------------------------------------------------------
\* the ways _parse_one_line can end on the entry about to be read that make
\* the calls the step made and raise what it raised
StepOutcomes ==
    {o \in parse_one_line(NextFields, tree, dev, NewName(Len(lines) - Len(unread) + 1), TRUE) :
        /\ o.events = last'
        /\ IF raised' = "none"
           THEN o.res \in {"device", "None", "UnrecognizedFSTabEntryError"}
           ELSE o.res = raised'}

\* the loop goes on to the next line
GoesOn == pc' = "parse" /\ unread' = Tail(unread) /\ raised' = "none"

C28_Step ==
    EntryNext =>
        LET line == PartitionHead(Head(unread), 35)
        IN  /\ \A o1, o2 \in StepOutcomes : o1.res = o2.res /\ o1.d = o2.d
            /\ \E o \in StepOutcomes :
                /\ o.res = "UnrecognizedFSTabEntryError" =>
                    /\ preserve_lines' = Append(preserve_lines, line)
                    /\ tree' = tree /\ dev' = dev
                    /\ GoesOn
                /\ o.res = "device" /\ o.d \notin Range(tree) =>
                    /\ \/ /\ tree' = Append(tree, o.d)
                          /\ dev'[o.d] = o.a
                          /\ preserve_lines' = preserve_lines
                       \/ /\ tree' = tree
                          /\ preserve_lines' = Append(preserve_lines, line)
                    /\ \A d \in Range(tree) : dev'[d] = dev[d]
                    /\ GoesOn
                /\ o.res = "device" /\ o.d \in Range(tree) =>
                    /\ tree' = tree
                    /\ preserve_lines' = preserve_lines
                    /\ GoesOn

(* C28: an iteration of parse_fstab in which _parse_one_line raises          *)
(* UnrecognizedFSTabEntryError appends the line to the end of preserve_lines *)
(* (a line that occurs twice is appended twice) and goes on to the next      *)
(* line, the graph as it was; a device returned that is not in the graph is  *)
(* added to it, or, when _add_device refuses it, the line is appended to     *)
(* preserve_lines and the graph is left as it was; a device returned that is *)
(* in the graph is not added again and its line is not preserved; in each    *)
(* case the loop goes on.                                                    *)
C28_PreserveOrAdd == [][C28_Step]_vars

\* the same unrecognized line was read twice and is preserved twice
C28_Witness ==
    /\ pc = "parse"
    /\ Len(preserve_lines) = 2
    /\ preserve_lines[1] = preserve_lines[2]

-----------------------------------------------------------------------------
\* the leaf the loop of the scan is about to look at is a candidate
Eligible(d) == dev[d].linux_native /\ dev[d].mountable /\ dev[d].controllable

\* the calls of an iteration on the candidate d that ends early: setup
\* fails, the mount fails, there is no /etc/fstab to read
EarlyEnds(d) ==
    {<<Event("setup", d, "fail")>>,
     <<Event("setup", d, "ok"), Event("mount", d, "fail"), Event("umount", d, "ok")>>,
     <<Event("setup", d, "ok"), Event("mount", d, "ok"), Event("umount", d, "ok"),
       Event("teardown", d, "ok")>>}

\* the calls of an iteration that passed every step
Passed(d) ==
    <<Event("setup", d, "ok"), Event("mount", d, "ok"), Event("parse_fstab", d, "ok"),
      Event("umount", d, "ok")>>

C29_Step ==
    pc = "scan" /\ todo # <<>> =>
        LET d == Head(todo)
        IN  /\ ~Eligible(d) => last' = <<>> /\ roots' = roots /\ pc' = "scan" /\ todo' = Tail(todo)
            /\ Eligible(d) => last' # <<>> /\ last'[1].op = "setup" /\ last'[1].d = d
            /\ last' \in EarlyEnds(d) => roots' = roots /\ pc' = "scan" /\ todo' = Tail(todo)
            /\ last' = Passed(d) =>
                /\ pc' = "scan" /\ todo' = Tail(todo)
                /\ \E f \in ScanFiles :
                    LET got == scan_parse_fstab(f, tree, dev)
                    IN  IF got.mounts = <<>> /\ got.swaps = <<>>
                        THEN roots' = roots
                        ELSE /\ Len(roots') = Len(roots) + 1
                             /\ SubSeq(roots', 1, Len(roots)) = roots
                             /\ roots'[Len(roots')].mounts = got.mounts
                             /\ roots'[Len(roots')].swaps = got.swaps
            /\ roots' # roots => last' = Passed(d)
            /\ pc' # "scan" =>
                /\ pc' = "scan_except"
                /\ last'[Len(last')].res = "fail"
                /\ last'[Len(last')].op \in {"teardown", "get_release_string", "parse_fstab"}

(* C29: in the loop of _find_existing_installations a candidate whose setup  *)
(* fails, whose mount fails, that has no readable /etc/fstab (and is torn    *)
(* down), or whose fstab gives neither mounts nor swaps adds no root and the *)
(* loop goes on to the next leaf; every eligible leaf the loop comes to is   *)
(* set up; a root is appended, after those of the earlier leaves, exactly    *)
(* for a candidate that passed every step and whose fstab gave a mount or a  *)
(* swap; when the loop ends the roots are returned as they are; the loop is  *)
(* left early only by an exception of the teardown, of get_release_string or *)
(* of parse_fstab.                                                           *)
C29_ScanGoesOn ==
    /\ [](pc = "scan" /\ todo = <<>> => attempted = leaves(tree, dev))
    /\ [][pc = "scan" /\ todo = <<>> => result' = <<roots>>]_vars
    /\ [][C29_Step]_vars

\* the first partition was set up and gave no root; the third one gave the
\* only root so far
C29_Witness ==
    /\ pc = "scan"
    /\ last = Passed("sda3")
    /\ Len(roots) = 1
    /\ "sda1" \in up
    /\ roots[1].name \in {<<"Linux on", "sda3">>, <<"Unknown Linux">>, <<"product", "version", "arch">>}

-----------------------------------------------------------------------------
\* the step is a call of the try block of write_escrow_packets that fails
EscrowFailure ==
    /\ pc \in {"escrow_dir", "escrow"}
    /\ last' # <<>>
    /\ last'[1].res = "fail"

C30_Step ==
    /\ EscrowFailure =>
        /\ raised' = "none"
        /\ pc' = "returned"
        /\ Len(last') = 2 /\ last'[2].op = "log"
        /\ last'[2].res \in {"IOError", "RuntimeError"}
        /\ UNCHANGED <<tree, dev, active, todo, attempted>>
    /\ pc \in {"escrow_dir", "escrow"} => raised' = "none"

(* C30: an IOError or RuntimeError raised by the creation of the escrow      *)
(* directory or by the writing of a device's packet does not leave           *)
(* write_escrow_packets: it is logged, the function returns and              *)
(* turn_on_filesystems, whose last statement the call is, completes without  *)
(* an exception (the devices after the failing one get no packet).           *)
C30_EscrowFailureLogged ==
    /\ [](call = "turn_on_filesystems" /\ raised # "none" => attempted = <<>> /\ last = <<>>)
    /\ [][C30_Step]_vars

\* the packet of the second escrow device could not be written, and
\* turn_on_filesystems has completed
C30_Witness ==
    /\ Completed("turn_on_filesystems")
    /\ Len(attempted) = 1
    /\ Len(todo) >= 1
    /\ last = <<Event("escrow", Head(todo), "fail"), Event("log", Head(todo), "RuntimeError")>>

-----------------------------------------------------------------------------
\* how many filesystems the mount_filesystems on record has mounted: every
\* device it attempted, less those a setup or a mount failed on (the only
\* failures of the operation, one per device)
MountedByCall == IF call = "mount_filesystems" THEN Len(attempted) - fails ELSE 0

(* C31: when mount_filesystems has returned, by its end or by an exception   *)
(* after a Raise answer of the callback, and filesystems it mounted are      *)
(* attached, the plan is active.                                             *)
C31_AttachedImpliesActive ==
    pc = "returned" /\ MountedByCall > 0 => active

-----------------------------------------------------------------------------
\* the step is the iteration of parse_fstab that the type-mismatch error
\* leaves
Mismatch == EntryNext /\ raised' = "FSTabTypeMismatchError"

C32_Step ==
    Mismatch =>
        /\ pc' = "returned"
        /\ UNCHANGED <<tree, dev, preserve_lines, unread>>
        /\ UNCHANGED <<blkid_tab, crypt_tab, orig_fstab>>
        /\ \E d \in Range(tree) :
            /\ last' = <<Event("setup", d, "ok"), Event("test_mount", d, "fail"),
                         Event("teardown", d, "ok")>>
            /\ up' = up \ {d}

\* after the abort the tables and the snapshot of the file are set
C32_TablesSet ==
    ReturnedFrom("parse_fstab") /\ raised = "FSTabTypeMismatchError" =>
        /\ blkid_tab = "parsed"
        /\ crypt_tab # <<>>
        /\ orig_fstab = <<Join(lines)>>
        /\ unread # <<>>

(* C32: the iteration of parse_fstab that ends in the type-mismatch error    *)
(* undoes nothing of the earlier lines: the graph with the devices they      *)
(* added, the preserved lines and the devices they left set up (all but the  *)
(* device of the failing line, which is torn down) are as they were before   *)
(* the iteration, and blkid_tab, crypt_tab and orig_fstab stay as            *)
(* parse_fstab set them before its loop.                                     *)
C32_NotAtomic == []C32_TablesSet /\ [][C32_Step]_vars

\* the first line made a device that was added to the graph and left set
\* up; the second line ended parse_fstab with the type-mismatch error
C32_Witness ==
    /\ ReturnedFrom("parse_fstab")
    /\ raised = "FSTabTypeMismatchError"
    /\ "fstab1" \in Range(tree)
    /\ "fstab1" \in up

-----------------------------------------------------------------------------
(* parse_fstab called again on the same plan *)

\* lines of a file that is parsed twice: a root filesystem, a swap partition,
\* two noauto entries (one with a comment) and a device that does not resolve
TwicePool == {L_root, L_swap, L_noauto, L_noauto_comment, L_unknown}

InitTwice ==
    /\ installer_mode \in BOOLEAN
    /\ efi = FALSE
    /\ ParseLayout
    /\ active = FALSE
    /\ NoRecord
    /\ lines \in UNION {[1..n -> TwicePool] : n \in 0..MaxLines}
    /\ preserve_lines = <<>>
    /\ orig_fstab = <<>>
    /\ blkid_tab = "None"
    /\ crypt_tab = <<>>
    /\ fstab_swaps = {}
    /\ up = {}
    /\ sysroot = NoneDev
    /\ files = {}
    /\ crypttab = <<>>

NextTwice ==
    \/ ParseBegin \/ ParseAgain \/ ParseLine \/ ParseEnd
    \/ Fstab
    \/ Return

SpecTwice == InitTwice /\ [][NextTwice]_vars

\* the lines of TwicePool that _parse_one_line does not recognize
Unrecognizable == {L_noauto, L_noauto_comment, L_unknown}

\* what one complete pass over the lines ls appends to the preserved list
RECURSIVE Kept(_)
Kept(ls) ==
    IF ls = <<>> THEN <<>>
    ELSE (IF Head(ls) \in Unrecognizable THEN <<PartitionHead(Head(ls), 35)>> ELSE <<>>)
            \o Kept(Tail(ls))

\* the lines of the file already read by the running call
Consumed == SubSeq(lines, 1, Len(lines) - Len(unread))

\* the preserved list is kept as a prefix of the new one
Grows ==
    /\ Len(preserve_lines) <= Len(preserve_lines')
    /\ SubSeq(preserve_lines', 1, Len(preserve_lines)) = preserve_lines

\* the preserved items at the end of the text fstab() returned
Emitted == SelectSeq(output, LAMBDA it : it.kind = "preserved")

\* the number of preserved lines that were in the list when the running call
\* began
Before == Len(preserve_lines) - Len(Kept(Consumed))

C33_Step ==
    /\ Grows
    /\ pc = "idle" /\ call' = "parse_fstab" => preserve_lines' = preserve_lines
    /\ pc = "parse" => Before' = Before

C33_Passes ==
    /\ pc = "parse" =>
            /\ Before >= 0
            /\ SubSeq(preserve_lines, Before + 1, Len(preserve_lines)) = Kept(Consumed)
    /\ Completed("fstab") =>
            /\ Emitted = PreservedItems(preserve_lines)
            /\ SubSeq(output, Len(output) - Len(Emitted) + 1, Len(output)) = Emitted

(* C33: the preserved-line list only grows: every step keeps the list as a
   prefix of the new one, a call of parse_fstab starts with the list it found
   and appends to it the unrecognized lines among those it reads, so that a
   second pass over the same file leaves each of them in the list twice, and
   fstab() emits the list as it is, each line as often as it is in the list. *)
C33_OnlyGrows == []C33_Passes /\ [][C33_Step]_vars

C33_Witness ==
    /\ Completed("fstab")
    /\ Kept(lines) # <<>>
    /\ preserve_lines = Kept(lines) \o Kept(lines)
    /\ Emitted = PreservedItems(Kept(lines)) \o PreservedItems(Kept(lines))

(* C34: fstab() succeeds in every reachable plan state: it returns without an
   exception, and when no mountpoint device and no swap device is selected for
   emission the text is the header followed by the preserved lines. *)
C34_FstabSucceeds ==
    ReturnedFrom("fstab") =>
        /\ raised = "none"
        /\ FstabDevices(tree, dev, installer_mode, fstab_swaps) = <<>> =>
                output = <<Header>> \o PreservedItems(preserve_lines)

====
